---- MODULE Spec2Model ----
(***************************************************************************)
(* A model of the LLM-CL compiler pipeline (src/LLM-CL_Compiler.py) and of *)
(* the concept registry and reference resolver                             *)
(* (src/LLM-CL_Encoder_Decoder.py).                                        *)
(*                                                                         *)
(* Python strings are sequences of one-character strings, so that          *)
(* scanning, splitting, prefix tests, number conversions and printing are  *)
(* computed character by character as the code computes them.              *)
(***************************************************************************)
EXTENDS Integers, Sequences, FiniteSets, TLC

VARIABLES
    (* the compiler harness *)
    doc,            \* the message the source text was written from (a tree of tags)
    source,         \* LLMCLCompiler.source
    compiler,       \* the LLMCLCompiler instance: its fields and its last (ok, output)
    other,          \* a second LLMCLCompiler instance, run on a related source
    reopt,          \* the result of Optimizer.optimize on compiler.optimized_ir
    (* the reference resolver *)
    context_buffer,     \* ReferenceResolver.context_buffer
    max_context_size,   \* ReferenceResolver.max_context_size
    added,              \* history: every message passed to add_to_context, in order
    resolution,         \* the last resolve_reference call and, if any, the one before
    (* the concept registry *)
    concepts,       \* UniversalConceptSpace.concepts: concept id -> definition
    last_add,       \* the last add_concept call: its arguments and the id it returned
    threads,        \* the add_concept call each host thread is in: its position,
                    \* its arguments and its local new_id
    kept,           \* a list the caller keeps and passes again: its items now
                    \* and the concepts whose related list is this very list
    (* the scanner, one loop iteration at a time *)
    lexer,          \* a Lexer instance: source, position, line, column, tokens
    tokenize_pc,    \* where its tokenize call is: "idle", "loop" or "returned"
    (* the parser, one loop iteration at a time *)
    parser          \* a Parser instance: tokens, current, errors; the parse
                    \* functions it is in, innermost last; where its parse
                    \* call is, and the node parse returned

vars == << doc, source, compiler, other, reopt,
           context_buffer, max_context_size, added, resolution,
           concepts, last_add, threads, kept, lexer, tokenize_pc, parser >>

compilerVars == << doc, source, compiler, other, reopt >>
resolverVars == << context_buffer, max_context_size, added, resolution >>
registryVars == << concepts, last_add, threads, kept >>
lexerVars == << lexer, tokenize_pc >>
parserVars == << parser >>

(***************************************************************************)
(* Characters and strings                                                  *)
(***************************************************************************)

Range(s) == { s[i] : i \in DOMAIN s }

DigitChars == {"0", "1", "2", "3", "4", "5", "6", "7", "8", "9"}

LetterChars == {"a", "b", "c", "d", "e", "f", "h", "i", "l", "m", "n", "o",
                "p", "q", "r", "s", "t", "v", "x", "y"}

\* str.isalnum() on one character
AlnumChars == LetterChars \cup DigitChars

\* str.isspace() on one character
SpaceChars == {" ", "\n", "\t"}

\* code points, for the comparison of strings (the sort key of the optimizer)
CodePoint ==
    [ch \in AlnumChars \cup {"_", "~", "#", ".", "^", "$", "@", "{", "}", "%"} \cup SpaceChars |->
        CASE ch = "\t" -> 9   [] ch = "\n" -> 10  [] ch = " " -> 32
          [] ch = "#" -> 35   [] ch = "$" -> 36   [] ch = "%" -> 37
          [] ch = "." -> 46
          [] ch = "0" -> 48   [] ch = "1" -> 49   [] ch = "2" -> 50
          [] ch = "3" -> 51   [] ch = "4" -> 52   [] ch = "5" -> 53
          [] ch = "6" -> 54   [] ch = "7" -> 55   [] ch = "8" -> 56
          [] ch = "9" -> 57   [] ch = "@" -> 64
          [] ch = "^" -> 94   [] ch = "_" -> 95
          [] ch = "a" -> 97   [] ch = "b" -> 98   [] ch = "c" -> 99
          [] ch = "d" -> 100  [] ch = "e" -> 101  [] ch = "f" -> 102
          [] ch = "h" -> 104  [] ch = "i" -> 105  [] ch = "l" -> 108
          [] ch = "m" -> 109  [] ch = "n" -> 110  [] ch = "o" -> 111
          [] ch = "p" -> 112  [] ch = "q" -> 113  [] ch = "r" -> 114
          [] ch = "s" -> 115  [] ch = "t" -> 116  [] ch = "v" -> 118
          [] ch = "x" -> 120  [] ch = "y" -> 121
          [] ch = "{" -> 123  [] ch = "}" -> 125  [] ch = "~" -> 126 ]

\* s < t for Python strings: lexicographic by code point, a proper prefix first
RECURSIVE StrLess(_, _)
StrLess(s, t) ==
    IF t = <<>> THEN FALSE
    ELSE IF s = <<>> THEN TRUE
    ELSE IF s[1] # t[1] THEN CodePoint[s[1]] < CodePoint[t[1]]
    ELSE StrLess(Tail(s), Tail(t))

\* s[i:] for a 0-based i
Slice(s, i) == IF i >= Len(s) THEN <<>> ELSE SubSeq(s, i + 1, Len(s))

\* s.startswith(p)
StartsWith(s, p) == Len(s) >= Len(p) /\ SubSeq(s, 1, Len(p)) = p

\* s.isdigit(): non-empty and every character a digit
IsDigitStr(s) == s # <<>> /\ \A i \in DOMAIN s : s[i] \in DigitChars

\* the number of leading characters of s[pos:] that are in the set allowed
RECURSIVE RunLength(_, _, _)
RunLength(s, pos, allowed) ==
    IF pos < Len(s) /\ s[pos + 1] \in allowed
    THEN 1 + RunLength(s, pos + 1, allowed)
    ELSE 0

\* s.split(sep) for a one-character separator: always at least one part
RECURSIVE Split(_, _)
Split(s, sep) ==
    IF \A i \in DOMAIN s : s[i] # sep THEN << s >>
    ELSE LET k == CHOOSE i \in DOMAIN s : s[i] = sep /\ \A j \in 1..(i - 1) : s[j] # sep
         IN  << SubSeq(s, 1, k - 1) >> \o Split(SubSeq(s, k + 1, Len(s)), sep)

\* sep.join(parts)
RECURSIVE Join(_, _)
Join(parts, sep) ==
    IF parts = <<>> THEN <<>>
    ELSE IF Len(parts) = 1 THEN parts[1]
    ELSE parts[1] \o sep \o Join(Tail(parts), sep)

DigitValue(ch) == CodePoint[ch] - 48

\* int(s) for a string of digits
RECURSIVE DigitsToInt(_)
DigitsToInt(s) ==
    IF s = <<>> THEN 0
    ELSE 10 * DigitsToInt(SubSeq(s, 1, Len(s) - 1)) + DigitValue(s[Len(s)])

DigitChar(d) == CHOOSE ch \in DigitChars : DigitValue(ch) = d

\* str(n), the decimal text of n >= 0, as an f-string formats it
RECURSIVE IntToStr(_)
IntToStr(n) ==
    IF n < 10 THEN << DigitChar(n) >>
    ELSE IntToStr(n \div 10) \o << DigitChar(n % 10) >>

(***************************************************************************)
(* Lexical analysis: class Lexer                                           *)
(* A lexer is the record [source, position, line, column, tokens];        *)
(* position is 0-based as in the code.                                     *)
(***************************************************************************)

Token(type, value, line, column) ==
    [type |-> type, value |-> value, line |-> line, column |-> column]

\* Lexer.__init__
NewLexer(src) ==
    [source |-> src, position |-> 0, line |-> 1, column |-> 1, tokens |-> <<>>]

\* Lexer._advance, n times
_advance(lex, n) ==
    [lex EXCEPT !.position = @ + n, !.column = @ + n]

\* Lexer._add_token: the token takes the lexer's current line and column
_add_token(lex, type, value) ==
    [lex EXCEPT !.tokens = Append(@, Token(type, value, lex.line, lex.column))]

\* Lexer._add_token_with_position
_add_token_with_position(lex, type, value, line, column) ==
    [lex EXCEPT !.tokens = Append(@, Token(type, value, line, column))]

\* the line and column after the whitespace run s[pos .. pos+n-1]
RECURSIVE WhitespaceLineCol(_, _, _, _, _)
WhitespaceLineCol(s, pos, n, line, column) ==
    IF n = 0 THEN << line, column >>
    ELSE IF s[pos + 1] = "\n"
         THEN WhitespaceLineCol(s, pos + 1, n - 1, line + 1, 1)
         ELSE WhitespaceLineCol(s, pos + 1, n - 1, line, column + 1)

\* Lexer._tokenize_whitespace: the token is stamped with the line reached
\* after the run and the column the run started at
_tokenize_whitespace(lex) ==
    LET n  == RunLength(lex.source, lex.position, SpaceChars)
        lc == WhitespaceLineCol(lex.source, lex.position, n, lex.line, lex.column)
        moved == [lex EXCEPT !.position = @ + n, !.line = lc[1], !.column = lc[2]]
    IN  _add_token_with_position(moved, "WHITESPACE",
            SubSeq(lex.source, lex.position + 1, lex.position + n), lc[1], lex.column)

\* re.match(r'v\d+\.\d+', s[pos:]): the length of the match, 0 when none
VersionMatchLen(s, pos) ==
    IF ~(pos < Len(s) /\ s[pos + 1] = "v") THEN 0
    ELSE LET major == RunLength(s, pos + 1, DigitChars)
             dot   == pos + 1 + major
         IN  IF major = 0 \/ ~(dot < Len(s) /\ s[dot + 1] = ".") THEN 0
             ELSE LET minor == RunLength(s, dot + 1, DigitChars)
                  IN  IF minor = 0 THEN 0 ELSE 1 + major + 1 + minor

\* a scanner that drops the @ of a malformed marker: no token for it
_tokenize_version_skip_malformed(lex) ==
    LET start_col == lex.column
        skipped   == _advance(lex, 1)
        n         == VersionMatchLen(lex.source, skipped.position)
    IN  IF n > 0
        THEN _advance(
                 _add_token_with_position(skipped, "VERSION",
                     << "@" >> \o SubSeq(lex.source, skipped.position + 1, skipped.position + n),
                     lex.line, start_col),
                 n)
        ELSE skipped

\* a scanner that leaves a malformed version marker where it is: the Error
\* token is added and the position stays
_tokenize_version_no_advance(lex) ==
    LET start_col == lex.column
        skipped   == _advance(lex, 1)
        n         == VersionMatchLen(lex.source, skipped.position)
    IN  IF n > 0
        THEN _advance(
                 _add_token_with_position(skipped, "VERSION",
                     << "@" >> \o SubSeq(lex.source, skipped.position + 1, skipped.position + n),
                     lex.line, start_col),
                 n)
        ELSE _add_token_with_position(lex, "ERROR", << "@" >>, lex.line, start_col)

\* Lexer._tokenize_version: a malformed marker leaves an ERROR token "@" and
\* the lexer one character further
_tokenize_version(lex) ==
    LET start_col == lex.column
        skipped   == _advance(lex, 1)
        n         == VersionMatchLen(lex.source, skipped.position)
    IN  IF n > 0
        THEN _advance(
                 _add_token_with_position(skipped, "VERSION",
                     << "@" >> \o SubSeq(lex.source, skipped.position + 1, skipped.position + n),
                     lex.line, start_col),
                 n)
        ELSE _add_token_with_position(skipped, "ERROR", << "@" >>, lex.line, start_col)

\* the shared shape of _tokenize_concept, _tokenize_relation,
\* _tokenize_quantifier and _tokenize_reference: skip the sigil, take the run
\* of allowed characters, emit sigil + run at the starting column
SigilRun(lex, type, sigil, allowed) ==
    LET skipped == _advance(lex, 1)
        n       == RunLength(lex.source, skipped.position, allowed)
    IN  _add_token_with_position(_advance(skipped, n), type,
            << sigil >> \o SubSeq(lex.source, skipped.position + 1, skipped.position + n),
            lex.line, lex.column)

_tokenize_concept(lex) == SigilRun(lex, "CONCEPT", "#", AlnumChars \cup {"_", "~"})

_tokenize_relation(lex) == SigilRun(lex, "RELATION", "~", AlnumChars \cup {"_"})

_tokenize_quantifier(lex) == SigilRun(lex, "QUANTIFIER", "$", AlnumChars \cup {"_"})

_tokenize_reference(lex) == SigilRun(lex, "REFERENCE", "^", AlnumChars \cup {"_", ".", "#"})

\* Lexer._tokenize_identifier
_tokenize_identifier(lex) ==
    LET n == RunLength(lex.source, lex.position, AlnumChars \cup {"_"})
    IN  _add_token_with_position(_advance(lex, n), "IDENTIFIER",
            SubSeq(lex.source, lex.position + 1, lex.position + n), lex.line, lex.column)

\* one iteration of the loop of Lexer.tokenize
TokenizeStep(lex) ==
    LET char == lex.source[lex.position + 1]
    IN  CASE char \in SpaceChars -> _tokenize_whitespace(lex)
          [] char = "@" -> _tokenize_version(lex)
          [] char = "#" -> _tokenize_concept(lex)
          [] char = "~" -> _tokenize_relation(lex)
          [] char = "$" -> _tokenize_quantifier(lex)
          [] char = "^" -> _tokenize_reference(lex)
          [] char = "{" -> _advance(_add_token(lex, "OPEN_BRACE", << "{" >>), 1)
          [] char = "}" -> _advance(_add_token(lex, "CLOSE_BRACE", << "}" >>), 1)
          [] char \in {"+", "-", "*", "/", "<", ">"} ->
                 _advance(_add_token(lex, "OPERATOR", << char >>), 1)
          [] char \in AlnumChars \cup {"_"} -> _tokenize_identifier(lex)
          [] OTHER -> _advance(_add_token(lex, "ERROR", << char >>), 1)

\* Lexer.tokenize: runs from the lexer's current position and appends to its
\* token list; returns the lexer, whose tokens field is the list returned
RECURSIVE tokenize(_)
tokenize(lex) ==
    IF lex.position < Len(lex.source)
    THEN tokenize(TokenizeStep(lex))
    ELSE _add_token(lex, "EOF", <<>>)

(***************************************************************************)
(* Syntax analysis: class Parser                                           *)
(* The parser reads the token list without its WHITESPACE tokens; current  *)
(* is the 0-based index of the next token.  A parse function returns       *)
(* [ok |-> TRUE, node, current], or [ok |-> FALSE, error] where the code   *)
(* raises: the exception leaves every enclosing parse function at once.    *)
(***************************************************************************)

\* Python's None, distinct from every string
None == << "None" >>

\* an empty dict or an empty list
Empty == << >>

ASTNode(type, value, children, attributes) ==
    [type |-> type, value |-> value, children |-> children, attributes |-> attributes]

\* Parser.__init__: the tokens the parser keeps
ParserTokens(tokens) == SelectSeq(tokens, LAMBDA t : t.type # "WHITESPACE")

\* Parser._peek
_peek(tokens, current) == tokens[current + 1]

\* Parser._is_at_end
_is_at_end(tokens, current) == _peek(tokens, current).type = "EOF"

\* Parser._check
_check(tokens, current, type) ==
    ~_is_at_end(tokens, current) /\ _peek(tokens, current).type = type

\* the text f"Error at line {line}, column {column}: {message}", kept as
\* its parts; detail is the token text an "Unexpected token" message ends with
ErrorText(line, column, message, detail) ==
    [line |-> line, column |-> column, message |-> message, detail |-> detail]

\* Parser._error: positions the message at the current token and raises
_error(tokens, current, message, detail) ==
    [ok |-> FALSE,
     error |-> ErrorText(_peek(tokens, current).line, _peek(tokens, current).column,
                         message, detail)]

Parsed(node, current) == [ok |-> TRUE, node |-> node, current |-> current]

\* the token types each body loop accepts as the start of a child
MessageBodyTypes == {"CONCEPT", "RELATION", "QUANTIFIER", "REFERENCE"}

ConceptBodyTypes == {"CONCEPT", "RELATION", "QUANTIFIER", "REFERENCE"}

\* a relation body that also takes a quantifier, as a concept body does
RelationBodyTypesWithQuantifier == {"CONCEPT", "RELATION", "QUANTIFIER", "REFERENCE"}

RelationBodyTypes == {"CONCEPT", "RELATION", "REFERENCE"}

QuantifierBodyTypes == {"CONCEPT", "QUANTIFIER", "IDENTIFIER"}

BodyTypes(ctx) ==
    CASE ctx = "message"    -> MessageBodyTypes
      [] ctx = "concept"    -> ConceptBodyTypes
      [] ctx = "relation"   -> RelationBodyTypes
      [] ctx = "quantifier" -> QuantifierBodyTypes

\* the message of the else branch of each body loop
UnexpectedMessage(ctx) ==
    CASE ctx = "message"    -> "Unexpected token: "
      [] ctx = "concept"    -> "Unexpected token in concept: "
      [] ctx = "relation"   -> "Unexpected token in relation: "
      [] ctx = "quantifier" -> "Unexpected token in quantifier: "

CloseMessage(ctx) ==
    CASE ctx = "message"    -> "Expected '}' to close message"
      [] ctx = "concept"    -> "Expected '}' to close concept"
      [] ctx = "relation"   -> "Expected '}' to close relation"
      [] ctx = "quantifier" -> "Expected '}' to close quantifier"

RECURSIVE ParseBody(_, _, _, _)
RECURSIVE ParseBraced(_, _, _, _)

\* Parser._parse_concept, called with the CONCEPT token consumed
_parse_concept(value, tokens, current) ==
    ParseBraced("concept", ASTNode("CONCEPT", value, Empty, Empty), tokens, current)

\* Parser._parse_relation, called with the RELATION token consumed
_parse_relation(value, tokens, current) ==
    ParseBraced("relation", ASTNode("RELATION", value, Empty, Empty), tokens, current)

\* Parser._parse_quantifier, called with the QUANTIFIER token consumed
_parse_quantifier(value, tokens, current) ==
    ParseBraced("quantifier", ASTNode("QUANTIFIER", value, Empty, Empty), tokens, current)

\* one matched branch of a body loop: the child built from the token just
\* consumed; current is past that token
ParseChild(tok, tokens, current) ==
    CASE tok.type = "CONCEPT"    -> _parse_concept(tok.value, tokens, current)
      [] tok.type = "RELATION"   -> _parse_relation(tok.value, tokens, current)
      [] tok.type = "QUANTIFIER" -> _parse_quantifier(tok.value, tokens, current)
      [] tok.type = "REFERENCE"  ->
             Parsed(ASTNode("REFERENCE", tok.value, Empty, Empty), current)
      [] tok.type = "IDENTIFIER" ->
             Parsed(ASTNode("PROPERTY", tok.value, Empty, Empty), current)

\* the while loop of _parse_message, _parse_concept, _parse_relation and
\* _parse_quantifier: children are appended to node until a CLOSE_BRACE or
\* the end; any other token raises
ParseBody(ctx, node, tokens, current) ==
    IF ~_check(tokens, current, "CLOSE_BRACE") /\ ~_is_at_end(tokens, current)
    THEN LET tok == _peek(tokens, current)
         IN  IF tok.type \in BodyTypes(ctx)
             THEN LET child == ParseChild(tok, tokens, current + 1)
                  IN  IF child.ok
                      THEN ParseBody(ctx,
                               [node EXCEPT !.children = Append(@, child.node)],
                               tokens, child.current)
                      ELSE child
             ELSE _error(tokens, current, UnexpectedMessage(ctx), tok.value)
    ELSE Parsed(node, current)

\* Parser._consume of the closing brace after a body
ConsumeClose(ctx, body, tokens) ==
    IF ~body.ok THEN body
    ELSE IF _check(tokens, body.current, "CLOSE_BRACE")
         THEN Parsed(body.node, body.current + 1)
         ELSE _error(tokens, body.current, CloseMessage(ctx), Empty)

\* the optional braced body of a concept, relation or quantifier
ParseBraced(ctx, node, tokens, current) ==
    IF _check(tokens, current, "OPEN_BRACE")
    THEN ConsumeClose(ctx, ParseBody(ctx, node, tokens, current + 1), tokens)
    ELSE Parsed(node, current)

\* a parser that takes the version marker as optional, as the grammar line
\* Message := Version? '{' ... reads, and supplies @v1.0 when it is absent
_parse_message_optional_version(tokens) ==
    LET has_version == _check(tokens, 0, "VERSION")
        start       == IF has_version THEN 1 ELSE 0
        message_node ==
            ASTNode("MESSAGE", None,
                    << ASTNode("VERSION",
                               IF has_version THEN _peek(tokens, 0).value
                               ELSE << "@", "v", "1", ".", "0" >>,
                               Empty, Empty) >>,
                    Empty)
    IN  IF ~_check(tokens, start, "OPEN_BRACE")
        THEN _error(tokens, start, "Expected '{' to open message", Empty)
        ELSE ConsumeClose("message",
                 ParseBody("message", message_node, tokens, start + 1), tokens)

\* Parser._parse_message: version marker, '{', contents, '}'; nothing is
\* checked after the closing brace
_parse_message(tokens) ==
    IF ~_check(tokens, 0, "VERSION")
    THEN _error(tokens, 0, "Expected version marker (@v1.0)", Empty)
    ELSE LET message_node ==
                 ASTNode("MESSAGE", None,
                         << ASTNode("VERSION", _peek(tokens, 0).value, Empty, Empty) >>,
                         Empty)
         IN  IF ~_check(tokens, 1, "OPEN_BRACE")
             THEN _error(tokens, 1, "Expected '{' after version marker", Empty)
             ELSE ConsumeClose("message",
                      ParseBody("message", message_node, tokens, 2), tokens)

\* a parse that returns what it had built when it aborted: the Message node
\* with the version node it had added, the error text under error
parse_partial_tree(tokens) ==
    LET r == _parse_message(tokens)
    IN  IF r.ok
        THEN [ast |-> r.node, errors |-> Empty]
        ELSE [ast |-> ASTNode("MESSAGE", None,
                              IF _check(tokens, 0, "VERSION")
                              THEN << ASTNode("VERSION", tokens[1].value, Empty, Empty) >>
                              ELSE Empty,
                              [error |-> r.error]),
              errors |-> << r.error, r.error >>]

\* Parser.parse on a fresh parser: [ast, errors, current].  _error appends
\* the error text to errors and raises it; parse catches it, appends
\* str(e) - the same text - again and returns the degenerate Message node
parse(tokens) ==
    LET r == _parse_message(tokens)
    IN  IF r.ok
        THEN [ast |-> r.node, errors |-> Empty]
        ELSE [ast |-> ASTNode("MESSAGE", << "E", "r", "r", "o", "r" >>, Empty,
                              [error |-> r.error]),
              errors |-> << r.error, r.error >>]

(***************************************************************************)
(* Semantic analysis: class SemanticAnalyzer                               *)
(* A diagnostic is its fixed message and the text interpolated after it.   *)
(***************************************************************************)

Diagnostic(message, detail) == [message |-> message, detail |-> detail]

NoFindings == [errors |-> Empty, warnings |-> Empty]

\* SemanticAnalyzer._check_message_structure
_check_message_structure(node) ==
    LET version_nodes == SelectSeq(node.children, LAMBDA ch : ch.type = "VERSION")
        content_nodes == SelectSeq(node.children, LAMBDA ch : ch.type # "VERSION")
    IN  [errors   |-> IF version_nodes = Empty
                      THEN << Diagnostic("Message missing version marker", Empty) >>
                      ELSE Empty,
         warnings |-> IF content_nodes = Empty
                      THEN << Diagnostic("Message has no content nodes", Empty) >>
                      ELSE Empty]

\* SemanticAnalyzer._check_concept: concept_space is the set of registry keys
_check_concept(node, concept_space) ==
    IF /\ node.value # None /\ node.value # Empty
       /\ StartsWith(node.value, << "#", "c" >>)
       /\ "~" \notin Range(node.value)
       /\ concept_space # {}
       /\ Slice(node.value, 1) \notin concept_space
    THEN [errors |-> Empty,
          warnings |-> << Diagnostic("Unknown concept ID: ", Slice(node.value, 1)) >>]
    ELSE NoFindings

\* a checker for which the bare prev is a good prev reference: the index is
\* rejected only when it holds a character that is no digit
_check_reference_bare_prev_ok(node) ==
    IF node.value = None \/ node.value = Empty
    THEN [errors |-> << Diagnostic("Reference node has no value", Empty) >>,
          warnings |-> Empty]
    ELSE IF ~StartsWith(node.value, << "^" >>)
    THEN [errors |-> << Diagnostic("Invalid reference format: ", node.value) >>,
          warnings |-> Empty]
    ELSE LET path_parts    == Split(Slice(node.value, 1), ".")
             first_segment == path_parts[1]
             is_prev       == StartsWith(first_segment, << "p", "r", "e", "v" >>)
         IN  [errors |->
                  IF is_prev /\ Range(Slice(first_segment, 4)) \ DigitChars # {}
                  THEN << Diagnostic("Invalid prev index: ", first_segment) >>
                  ELSE Empty,
              warnings |->
                  IF ~(\/ first_segment = << "s", "e", "l", "f" >>
                       \/ first_segment = << "s", "h", "a", "r", "e", "d" >>
                       \/ is_prev)
                  THEN << Diagnostic("Unusual reference type: ", first_segment) >>
                  ELSE Empty]

\* SemanticAnalyzer._check_reference
_check_reference(node) ==
    IF node.value = None \/ node.value = Empty
    THEN [errors |-> << Diagnostic("Reference node has no value", Empty) >>,
          warnings |-> Empty]
    ELSE IF ~StartsWith(node.value, << "^" >>)
    THEN [errors |-> << Diagnostic("Invalid reference format: ", node.value) >>,
          warnings |-> Empty]
    ELSE LET path_parts    == Split(Slice(node.value, 1), ".")
             first_segment == path_parts[1]
             is_prev       == StartsWith(first_segment, << "p", "r", "e", "v" >>)
         IN  [errors |->
                  (IF Len(path_parts) < 1
                   THEN << Diagnostic("Reference needs at least one path segment: ",
                                      node.value) >>
                   ELSE Empty)
                  \o (IF is_prev /\ ~IsDigitStr(Slice(first_segment, 4))
                      THEN << Diagnostic("Invalid prev index: ", first_segment) >>
                      ELSE Empty),
              warnings |->
                  IF ~(\/ first_segment = << "s", "e", "l", "f" >>
                       \/ first_segment = << "s", "h", "a", "r", "e", "d" >>
                       \/ is_prev)
                  THEN << Diagnostic("Unusual reference type: ", first_segment) >>
                  ELSE Empty]

\* SemanticAnalyzer._analyze_node: the node's own check, then its children
\* in order; the findings accumulate in visiting order
RECURSIVE _analyze_node(_, _)
RECURSIVE AnalyzeChildren(_, _, _)
AnalyzeChildren(children, concept_space, acc) ==
    IF children = Empty THEN acc
    ELSE LET f == _analyze_node(children[1], concept_space)
         IN  AnalyzeChildren(Tail(children), concept_space,
                 [errors |-> acc.errors \o f.errors,
                  warnings |-> acc.warnings \o f.warnings])

_analyze_node(node, concept_space) ==
    AnalyzeChildren(node.children, concept_space,
        CASE node.type = "MESSAGE"   -> _check_message_structure(node)
          [] node.type = "CONCEPT"   -> _check_concept(node, concept_space)
          [] node.type = "REFERENCE" -> _check_reference(node)
          [] OTHER -> NoFindings)

\* SemanticAnalyzer.analyze on a fresh analyzer
analyze(ast, concept_space) == _analyze_node(ast, concept_space)

(***************************************************************************)
(* Lowering: class IRBuilder                                               *)
(* An IR node is a dict: a record that has a field exactly when the dict   *)
(* has the key.                                                            *)
(***************************************************************************)

Has(d, key) == key \in DOMAIN d

\* d with d[key] = value added when cond holds
WithKey(d, cond, key, value) ==
    IF cond THEN [k \in DOMAIN d \cup {key} |-> IF k = key THEN value ELSE d[k]] ELSE d

\* re.search(r'v(\d+\.\d+)', s): group 1 of the leftmost match, None if none
VersionSearch(s) ==
    LET hits == { i \in 0..(Len(s) - 1) : VersionMatchLen(s, i) > 0 }
    IN  IF hits = {} THEN None
        ELSE LET i == CHOOSE i \in hits : \A j \in hits : i <= j
             IN  SubSeq(s, i + 2, i + VersionMatchLen(s, i))

RECURSIVE _build_node_ir(_)

BuildChildren(children) == [i \in DOMAIN children |-> _build_node_ir(children[i])]

\* IRBuilder._build_message_ir
_build_message_ir(node) ==
    LET version_nodes == SelectSeq(node.children, LAMBDA ch : ch.type = "VERSION")
        content_nodes == SelectSeq(node.children, LAMBDA ch : ch.type # "VERSION")
        version == IF version_nodes = Empty THEN None
                   ELSE VersionSearch(version_nodes[1].value)
    IN  WithKey(WithKey([type |-> "Message"],
                        version # None, "version", version),
                content_nodes # Empty, "content", BuildChildren(content_nodes))

\* IRBuilder._build_concept_ir: parts[1] alone becomes the qualifier
_build_concept_ir(node) ==
    LET has_value == node.value # None /\ node.value # Empty
        parts == IF has_value THEN Split(Slice(node.value, 1), "~") ELSE << Empty >>
    IN  WithKey(WithKey(WithKey([type |-> "Concept"],
                                has_value, "id", parts[1]),
                        has_value /\ Len(parts) > 1, "qualifier",
                        IF Len(parts) > 1 THEN parts[2] ELSE Empty),
                node.children # Empty, "children", BuildChildren(node.children))

\* IRBuilder._build_relation_ir
_build_relation_ir(node) ==
    LET has_value == node.value # None /\ node.value # Empty
    IN  WithKey(WithKey([type |-> "Relation"],
                        has_value, "name", Slice(node.value, 1)),
                node.children # Empty, "children", BuildChildren(node.children))

\* IRBuilder._build_quantifier_ir
_build_quantifier_ir(node) ==
    LET has_value == node.value # None /\ node.value # Empty
    IN  WithKey(WithKey([type |-> "Quantifier"],
                        has_value, "name", Slice(node.value, 1)),
                node.children # Empty, "children", BuildChildren(node.children))

\* IRBuilder._build_reference_ir
_build_reference_ir(node) ==
    LET has_value  == node.value # None /\ node.value # Empty
        path_parts == IF has_value THEN Split(Slice(node.value, 1), ".") ELSE << Empty >>
    IN  WithKey(WithKey([type |-> "Reference"],
                        has_value, "source", path_parts[1]),
                has_value /\ Len(path_parts) > 1, "path", Tail(path_parts))

\* IRBuilder._build_node_ir; the last case is the generic one, which keeps
\* the node type's own name (PROPERTY for an identifier in a quantifier)
_build_node_ir(node) ==
    CASE node.type = "MESSAGE"    -> _build_message_ir(node)
      [] node.type = "CONCEPT"    -> _build_concept_ir(node)
      [] node.type = "RELATION"   -> _build_relation_ir(node)
      [] node.type = "QUANTIFIER" -> _build_quantifier_ir(node)
      [] node.type = "REFERENCE"  -> _build_reference_ir(node)
      [] OTHER -> [type |-> node.type, value |-> node.value,
                   attributes |-> node.attributes,
                   children |-> BuildChildren(node.children)]

\* IRBuilder.build
build(ast) == _build_node_ir(ast)

(***************************************************************************)
(* Canonicalization: class Optimizer                                       *)
(***************************************************************************)

\* d.get(key, '')
GetOr(d, key) == IF Has(d, key) THEN d[key] ELSE Empty

\* the rank of a type name in Python's string order:
\* 'Concept' < 'Message' < 'PROPERTY' < 'Quantifier' < 'Reference' < 'Relation'
TypeRank(type) ==
    CASE type = "Concept" -> 1 [] type = "Message" -> 2 [] type = "PROPERTY" -> 3
      [] type = "Quantifier" -> 4 [] type = "Reference" -> 5 [] type = "Relation" -> 6

\* the sort key of _optimize_message: (type, id or '', name or '')
SortKey(x) == << x.type, GetOr(x, "id"), GetOr(x, "name") >>

\* k1 < k2 as Python compares the key tuples
KeyLess(k1, k2) ==
    IF k1[1] # k2[1] THEN TypeRank(k1[1]) < TypeRank(k2[1])
    ELSE IF k1[2] # k2[2] THEN StrLess(k1[2], k2[2])
    ELSE StrLess(k1[3], k2[3])
\* an unstable sort: an item goes before the items whose key equals its own
RECURSIVE UnstableSort(_)
UnstableSort(items) ==
    IF items = Empty THEN Empty
    ELSE LET front == UnstableSort(SubSeq(items, 1, Len(items) - 1))
             x     == items[Len(items)]
             n     == Cardinality({ i \in DOMAIN front :
                                      KeyLess(SortKey(front[i]), SortKey(x)) })
         IN  SubSeq(front, 1, n) \o << x >> \o SubSeq(front, n + 1, Len(front))

\* list.sort(key=...): stable, so items with equal keys keep their order
RECURSIVE StableSort(_)
StableSort(items) ==
    IF items = Empty THEN Empty
    ELSE LET front == StableSort(SubSeq(items, 1, Len(items) - 1))
             x     == items[Len(items)]
             \* x goes after every item whose key is not greater than its own
             n     == Cardinality({ i \in DOMAIN front :
                                      ~KeyLess(SortKey(x), SortKey(front[i])) })
         IN  SubSeq(front, 1, n) \o << x >> \o SubSeq(front, n + 1, Len(front))

\* a canonicalizer that leaves the content in source order
UnsortedContent(content) == content

\* the order _optimize_message gives the content
SortContent(content) == StableSort(content)

\* a canonicalizer that lists the relations of a concept before its concepts
GroupChildrenRelationsFirst(children) ==
    SelectSeq(children, LAMBDA n : n.type = "Relation")
    \o SelectSeq(children, LAMBDA n : n.type = "Concept")
    \o SelectSeq(children, LAMBDA n : n.type \notin {"Relation", "Concept"})

\* the order _optimize_concept gives the children: concepts, relations, others
GroupChildren(children) ==
    SelectSeq(children, LAMBDA n : n.type = "Concept")
    \o SelectSeq(children, LAMBDA n : n.type = "Relation")
    \o SelectSeq(children, LAMBDA n : n.type \notin {"Relation", "Concept"})

RECURSIVE _optimize_node(_)

OptimizeEach(items) == [i \in DOMAIN items |-> _optimize_node(items[i])]

\* Optimizer._optimize_message; the lowering never puts None in a list, so
\* the None filters keep every item
_optimize_message(node) ==
    LET versioned == WithKey(node, ~Has(node, "version"), "version", << "1", ".", "0" >>)
    IN  IF Has(versioned, "content")
        THEN [versioned EXCEPT !.content = OptimizeEach(SortContent(@))]
        ELSE versioned

\* Optimizer._optimize_concept; the lowering always sets id (the token text
\* is never empty), so the id(node) placeholder is not reached
_optimize_concept(node) ==
    IF Has(node, "children")
    THEN [node EXCEPT !.children = OptimizeEach(GroupChildren(@))]
    ELSE node

\* Optimizer._optimize_relation; name is always set by the lowering
_optimize_relation(node) ==
    IF Has(node, "children")
    THEN [node EXCEPT !.children = OptimizeEach(@)]
    ELSE node

\* Optimizer._optimize_node on a dict.  The generic branch optimizes every
\* dict- or list-valued entry: of a Quantifier, Reference or PROPERTY dict
\* only children holds dicts (a path is a list of strings, attributes is {})
_optimize_node(node) ==
    CASE node.type = "Message"  -> _optimize_message(node)
      [] node.type = "Concept"  -> _optimize_concept(node)
      [] node.type = "Relation" -> _optimize_relation(node)
      [] OTHER -> IF Has(node, "children")
                  THEN [node EXCEPT !.children = OptimizeEach(@)]
                  ELSE node

\* Optimizer.optimize: the value returned
optimize(ir) == _optimize_node(ir)

\* what the dict passed to Optimizer is after optimize: ir.copy() is a
\* shallow copy, so the version default and the sorted content list belong to
\* the copy, but the content dicts are shared and are rewritten in place
AfterOptimize(ir) ==
    IF Has(ir, "content")
    THEN [ir EXCEPT !.content = OptimizeEach(@)]
    ELSE ir

(***************************************************************************)
(* Printing: class CodeGenerator                                           *)
(***************************************************************************)

\* CodeGenerator.indent_size
indent_size == 2

RECURSIVE Spaces(_)
Spaces(n) == IF n = 0 THEN Empty ELSE << " " >> \o Spaces(n - 1)

\* CodeGenerator._indent at a given indent_level
_indent(code, indent_level) == Spaces(indent_level * indent_size) \o code

RECURSIVE _generate_node(_, _)

\* the loop over the children of a node: each non-empty child text on its
\* own indented line
RECURSIVE GenerateLines(_, _)
GenerateLines(items, indent_level) ==
    IF items = Empty THEN Empty
    ELSE LET code == _generate_node(items[1], indent_level)
         IN  (IF code # Empty THEN _indent(code, indent_level) \o << "\n" >> ELSE Empty)
             \o GenerateLines(Tail(items), indent_level)

\* a printer that writes the version without its '@'
_generate_message_no_sigil(node, indent_level) ==
    << "v" >> \o (IF Has(node, "version") THEN node.version ELSE << "1", ".", "0" >>)
    \o << "{", "\n" >>
    \o (IF Has(node, "content") THEN GenerateLines(node.content, indent_level + 1)
        ELSE Empty)
    \o << "}" >>

\* CodeGenerator._generate_message
_generate_message(node, indent_level) ==
    << "@", "v" >> \o (IF Has(node, "version") THEN node.version ELSE << "1", ".", "0" >>)
    \o << "{", "\n" >>
    \o (IF Has(node, "content") THEN GenerateLines(node.content, indent_level + 1)
        ELSE Empty)
    \o << "}" >>

\* the body shared by _generate_concept, _generate_relation and
\* _generate_quantifier once the tag is formatted
GenerateTagged(tag, node, indent_level) ==
    IF ~Has(node, "children") \/ node.children = Empty
    THEN tag
    ELSE tag \o << "{", "\n" >>
         \o GenerateLines(node.children, indent_level + 1)
         \o _indent(<< "}" >>, indent_level)

\* CodeGenerator._generate_concept: an empty qualifier is not printed
_generate_concept(node, indent_level) ==
    GenerateTagged(
        IF GetOr(node, "qualifier") # Empty
        THEN << "#" >> \o GetOr(node, "id") \o << "~" >> \o node.qualifier
        ELSE << "#" >> \o GetOr(node, "id"),
        node, indent_level)

\* CodeGenerator._generate_relation
_generate_relation(node, indent_level) ==
    GenerateTagged(<< "~" >> \o GetOr(node, "name"), node, indent_level)

\* CodeGenerator._generate_quantifier
_generate_quantifier(node, indent_level) ==
    GenerateTagged(<< "$" >> \o GetOr(node, "name"), node, indent_level)

\* CodeGenerator._generate_reference
_generate_reference(node) ==
    IF GetOr(node, "path") = Empty
    THEN << "^" >> \o GetOr(node, "source")
    ELSE << "^" >> \o GetOr(node, "source") \o << "." >> \o Join(node.path, << "." >>)

\* CodeGenerator._generate_node: any other type prints as the empty string
_generate_node(node, indent_level) ==
    CASE node.type = "Message"    -> _generate_message(node, indent_level)
      [] node.type = "Concept"    -> _generate_concept(node, indent_level)
      [] node.type = "Relation"   -> _generate_relation(node, indent_level)
      [] node.type = "Quantifier" -> _generate_quantifier(node, indent_level)
      [] node.type = "Reference"  -> _generate_reference(node)
      [] OTHER -> Empty

\* CodeGenerator.generate on a fresh generator (indent_level 0)
generate(ir) == _generate_node(ir, 0)

(***************************************************************************)
(* class LLMCLCompiler                                                     *)
(***************************************************************************)

\* LLMCLCompiler.__init__; concept_space is the set of registry keys.
\* ok and output hold what the last compile() returned (None before any)
NewCompiler(src, concept_space) ==
    [lexer |-> NewLexer(src), concept_space |-> concept_space,
     tokens |-> None, ast |-> None, errors |-> Empty, warnings |-> Empty,
     ir |-> None, optimized_ir |-> None, generated_code |-> None,
     calls |-> 0, ok |-> FALSE, output |-> None]

\* '\n'.join(errors): the lines of the joined text
JoinLines(errors) == [lines |-> errors]

\* a compile for which a warning is as fatal as an error
compile_warnings_block(c) ==
    LET lexed   == tokenize(c.lexer)
        parsed  == parse(ParserTokens(lexed.tokens))
        started == [c EXCEPT !.lexer = lexed, !.tokens = lexed.tokens,
                             !.ast = parsed.ast, !.calls = @ + 1]
    IN  IF parsed.errors # Empty
        THEN LET errors == c.errors \o parsed.errors
             IN  [started EXCEPT !.errors = errors,
                                 !.ok = FALSE, !.output = JoinLines(errors)]
        ELSE LET found    == analyze(parsed.ast, c.concept_space)
                 errors   == c.errors \o found.errors
                 warnings == c.warnings \o found.warnings
                 checked  == [started EXCEPT !.errors = errors, !.warnings = warnings]
             IN  IF errors \o warnings # Empty
                 THEN [checked EXCEPT !.ok = FALSE, !.output = JoinLines(errors \o warnings)]
                 ELSE LET ir        == build(parsed.ast)
                          optimized == optimize(ir)
                          code      == generate(optimized)
                      IN  [checked EXCEPT !.ir = AfterOptimize(ir),
                                          !.optimized_ir = optimized,
                                          !.generated_code = code,
                                          !.ok = TRUE, !.output = code]

\* a compile that lowers, canonicalizes and prints whatever parsed, and
\* reports the semantic errors afterwards
compile_lowering_despite_errors(c) ==
    LET lexed   == tokenize(c.lexer)
        parsed  == parse(ParserTokens(lexed.tokens))
        started == [c EXCEPT !.lexer = lexed, !.tokens = lexed.tokens,
                             !.ast = parsed.ast, !.calls = @ + 1]
    IN  IF parsed.errors # Empty
        THEN LET errors == c.errors \o parsed.errors
             IN  [started EXCEPT !.errors = errors,
                                 !.ok = FALSE, !.output = JoinLines(errors)]
        ELSE LET found    == analyze(parsed.ast, c.concept_space)
                 errors   == c.errors \o found.errors
                 warnings == c.warnings \o found.warnings
                 ir        == build(parsed.ast)
                 optimized == optimize(ir)
                 code      == generate(optimized)
                 lowered  == [started EXCEPT !.errors = errors, !.warnings = warnings,
                                             !.ir = AfterOptimize(ir),
                                             !.optimized_ir = optimized,
                                             !.generated_code = code]
             IN  IF errors # Empty
                 THEN [lowered EXCEPT !.ok = FALSE, !.output = JoinLines(errors)]
                 ELSE [lowered EXCEPT !.ok = TRUE, !.output = code]

\* LLMCLCompiler.compile: the instance after the call
compile(c) ==
    LET lexed   == tokenize(c.lexer)
        parsed  == parse(ParserTokens(lexed.tokens))
        started == [c EXCEPT !.lexer = lexed, !.tokens = lexed.tokens,
                             !.ast = parsed.ast, !.calls = @ + 1]
    IN  IF parsed.errors # Empty
        THEN LET errors == c.errors \o parsed.errors
             IN  [started EXCEPT !.errors = errors,
                                 !.ok = FALSE, !.output = JoinLines(errors)]
        ELSE LET found    == analyze(parsed.ast, c.concept_space)
                 errors   == c.errors \o found.errors
                 warnings == c.warnings \o found.warnings
                 checked  == [started EXCEPT !.errors = errors, !.warnings = warnings]
             IN  IF errors # Empty
                 THEN [checked EXCEPT !.ok = FALSE, !.output = JoinLines(errors)]
                 ELSE LET ir        == build(parsed.ast)
                          optimized == optimize(ir)
                          code      == generate(optimized)
                      IN  [checked EXCEPT !.ir = AfterOptimize(ir),
                                          !.optimized_ir = optimized,
                                          !.generated_code = code,
                                          !.ok = TRUE, !.output = code]

(***************************************************************************)
(* The compiler under test: sources written from bounded message trees     *)
(***************************************************************************)

\* the most tags (nodes below the message) a written message holds
MaxNodes == 3

\* the tags a message is written with: concepts with one id and two
\* qualifiers and with another id, a relation, a quantifier, a reference
\* with a path, and a plain identifier
ConceptTags == { << "#", "a", "~", "x" >>, << "#", "a", "~", "y" >>, << "#", "b" >> }

RelationTags == { << "~", "r" >> }

QuantifierTags == { << "$", "q" >> }

ReferenceTags == { << "^", "s", "e", "l", "f", ".", "x" >> }

IdentifierTags == { << "p" >> }

\* the tags that may be written with a braced body
BodyTags == ConceptTags \cup RelationTags \cup QuantifierTags

Tags == BodyTags \cup ReferenceTags \cup IdentifierTags

\* what a source starts with: a version marker, nothing, a bare '@', a
\* marker without its minor number, the marker's text without the '@'
GoodHead == << "@", "v", "1", ".", "0" >>

BadHeads == { Empty, << "@" >>, << "@", "v", "1", "." >>, << "v", "1", ".", "0" >>,
              << " ", "#", "b" >> }

\* tags the semantic check and the lowering have something to say about: a
\* concept id the registry has and one it has not, a reference with an
\* unusual scope, one with a prev index that is no number and one with a
\* good prev index; a word and a lone letter after the concept sigil, an
\* unknown id with a qualifier, a concept with two qualifier separators; the
\* bare prev, the bare sigil, an empty first segment, and shared
SemanticTags ==
    { << "#", "c", "1" >>, << "#", "c", "2" >>, << "^", "f", "o", "o", ".", "x" >>,
      << "^", "p", "r", "e", "v", "x" >>, << "^", "p", "r", "e", "v", "1" >>,
      << "#", "c", "a", "t" >>, << "#", "c" >>, << "#", "c", "2", "~", "x" >>,
      << "#", "a", "~", "x", "~", "y" >>,
      << "^", "p", "r", "e", "v" >>, << "^" >>, << "^", ".", "x" >>,
      << "^", "s", "h", "a", "r", "e", "d" >> }

AnomalyTags == { << "?" >>, << "@" >> }

\* what is written after the closing brace of the message: nothing, a
\* blank, a tag, a character the scanner has no token for, a brace, a
\* marker without its minor number, a second message
Tails ==
    { Empty, << " " >>, << "#", "b" >>, << "?" >>, << "}" >>, << "{" >>,
      << "@", "v", "1", "." >>, << "@", "v", "1", ".", "0", "{", "}" >> }

Tree(tag, children) == [tag |-> tag, children |-> children]

\* the sequences of trees that hold n tags in all
RECURSIVE Forests(_)
Forests(n) ==
    IF n = 0 THEN { Empty }
    ELSE UNION { { << Tree(tag, children) >> \o rest :
                       tag \in (IF k = 1 THEN Tags ELSE BodyTags),
                       children \in Forests(k - 1),
                       rest \in Forests(n - k) } : k \in 1..n }

\* one or two of the special tags, or one of them inside a concept or next
\* to one
SpecialForests ==
    LET leaves == { Tree(t, Empty) : t \in SemanticTags \cup AnomalyTags }
        b      == << "#", "b" >>
    IN  { << l >> : l \in leaves }
        \cup { << Tree(b, << l >>) >> : l \in leaves }
        \cup { << Tree(b, Empty), l >> : l \in leaves }
        \cup { << l, m >> : l \in { Tree(t, Empty) : t \in SemanticTags },
                             m \in { Tree(t, Empty) : t \in SemanticTags } }

\* the written messages: every forest under a good head, the forests of at
\* most one tag under each bad head, the special forests under a good head,
\* and the forests of at most one tag followed by each tail
Docs ==
    [head : {GoodHead}, content : UNION { Forests(n) : n \in 0..MaxNodes }, tail : {Empty}]
    \cup [head : BadHeads, content : Forests(0) \cup Forests(1), tail : {Empty}]
    \cup [head : {GoodHead}, content : SpecialForests, tail : {Empty}]
    \cup [head : {GoodHead}, content : Forests(0) \cup Forests(1), tail : Tails]

\* the text of a forest: tags separated by one space, a non-empty list of
\* children in braces right after its tag
RECURSIVE RenderItems(_)
RenderItems(items) ==
    IF items = Empty THEN Empty
    ELSE items[1].tag
         \o (IF items[1].children # Empty
             THEN << "{" >> \o RenderItems(items[1].children) \o << "}" >>
             ELSE Empty)
         \o (IF Len(items) > 1 THEN << " " >> \o RenderItems(Tail(items)) ELSE Empty)

\* the source text of a written message
Render(d) == d.head \o << "{" >> \o RenderItems(d.content) \o << "}" >> \o d.tail

\* the reorderings of a sequence other than itself
Reorderings(items) ==
    { [i \in DOMAIN items |-> items[p[i]]] : p \in Permutations(DOMAIN items) } \ { items }

\* a tree with the children of exactly one node at or below it reordered
RECURSIVE ReorderedBelow(_)
ReorderedBelow(tree) ==
    { [tree EXCEPT !.children = c] : c \in Reorderings(tree.children) }
    \cup UNION { { [tree EXCEPT !.children[i] = t] : t \in ReorderedBelow(tree.children[i]) } :
                 i \in DOMAIN tree.children }

\* the written message with its top-level items reordered
ReorderedTop(d) == { [d EXCEPT !.content = c] : c \in Reorderings(d.content) }

\* the written message with the children of one tag reordered
ReorderedNested(d) ==
    UNION { { [d EXCEPT !.content[i] = t] : t \in ReorderedBelow(d.content[i]) } :
            i \in DOMAIN d.content }

\* the registry keys the checker is given
CheckerConceptSpace == { << "c", "1" >> }

NoOther == [relation |-> "none"]

NotReoptimized == [done |-> FALSE]

InitCompilerVars ==
    /\ doc \in Docs
    /\ source = Render(doc)
    /\ compiler = NewCompiler(source, CheckerConceptSpace)
    /\ other = NoOther
    /\ reopt = NotReoptimized

\* compiler.compile()
Compile ==
    /\ compiler.calls = 0
    /\ other = NoOther
    /\ ~reopt.done
    /\ compiler' = compile(compiler)
    /\ UNCHANGED << doc, source, other, reopt >>
    /\ UNCHANGED << resolverVars, registryVars, lexerVars, parserVars >>

Compiled == compiler.calls > 0

\* a second compiler is run on the text the first one printed
CompilePrinted ==
    /\ Compiled /\ compiler.ok
    /\ other = NoOther /\ ~reopt.done
    /\ other' = [relation |-> "printed",
                 compiler |-> compile(NewCompiler(compiler.generated_code,
                                                  CheckerConceptSpace))]
    /\ UNCHANGED << doc, source, compiler, reopt >>
    /\ UNCHANGED << resolverVars, registryVars, lexerVars, parserVars >>

\* a second compiler is run on the same message written with its top-level
\* items in another order
CompileReorderedTop ==
    /\ Compiled
    /\ other = NoOther /\ ~reopt.done
    /\ \E d \in ReorderedTop(doc) :
           other' = [relation |-> "reordered_top", doc |-> d,
                     compiler |-> compile(NewCompiler(Render(d), CheckerConceptSpace))]
    /\ UNCHANGED << doc, source, compiler, reopt >>
    /\ UNCHANGED << resolverVars, registryVars, lexerVars, parserVars >>

\* a second compiler is run on the same message written with the children
\* of one tag in another order
CompileReorderedNested ==
    /\ Compiled
    /\ other = NoOther /\ ~reopt.done
    /\ \E d \in ReorderedNested(doc) :
           other' = [relation |-> "reordered_nested", doc |-> d,
                     compiler |-> compile(NewCompiler(Render(d), CheckerConceptSpace))]
    /\ UNCHANGED << doc, source, compiler, reopt >>
    /\ UNCHANGED << resolverVars, registryVars, lexerVars, parserVars >>

\* compiler.compile() a second time on the same instance; other keeps the
\* instance after the second call.  Repeated on the short and the special
\* messages
CompileAgain ==
    /\ Compiled
    /\ other = NoOther /\ ~reopt.done
    /\ doc.content \in Forests(0) \cup Forests(1) \cup SpecialForests
    /\ other' = [relation |-> "again", doc |-> doc, compiler |-> compile(compiler)]
    /\ UNCHANGED << doc, source, compiler, reopt >>
    /\ UNCHANGED << resolverVars, registryVars, lexerVars, parserVars >>

\* Optimizer(compiler.optimized_ir).optimize()
Reoptimize ==
    /\ Compiled /\ compiler.ok
    /\ other = NoOther /\ ~reopt.done
    /\ reopt' = [done |-> TRUE, ir |-> optimize(compiler.optimized_ir)]
    /\ UNCHANGED << doc, source, compiler, other >>
    /\ UNCHANGED << resolverVars, registryVars, lexerVars, parserVars >>

(***************************************************************************)
(* class ReferenceResolver                                                 *)
(* A Python value is a record with a kind: a dict holds its (key, value)   *)
(* pairs in insertion order, a list its items, a str its characters.       *)
(* NoneValue is the None that resolve_reference returns for "not found".   *)
(***************************************************************************)

NoneValue == [kind |-> "none"]

StrValue(chars) == [kind |-> "str", value |-> chars]

ListValue(items) == [kind |-> "list", items |-> items]

DictValue(pairs) == [kind |-> "dict", items |-> pairs]

\* int(s): [ok |-> TRUE, value], or [ok |-> FALSE] for ValueError.  An
\* optional sign and digits; the texts here hold no spaces or underscores
ParseInt(s) ==
    LET signed == s # Empty /\ s[1] \in {"-", "+"}
        digits == IF signed THEN Tail(s) ELSE s
    IN  IF IsDigitStr(digits)
        THEN [ok |-> TRUE,
              value |-> IF signed /\ s[1] = "-" THEN 0 - DigitsToInt(digits)
                        ELSE DigitsToInt(digits)]
        ELSE [ok |-> FALSE]

\* a walk whose tag segment on a dict takes the last key with the prefix
ResolveSegmentLastMatch(current, segment) ==
    IF current.kind = "dict"
    THEN IF StartsWith(segment, << "#" >>)
         THEN LET hits == { i \in DOMAIN current.items :
                              StartsWith(current.items[i][1], segment) }
              IN  IF hits = {} THEN NoneValue
                  ELSE current.items[CHOOSE i \in hits : \A j \in hits : i >= j][2]
         ELSE LET hits == { i \in DOMAIN current.items : current.items[i][1] = segment }
              IN  IF hits = {} THEN NoneValue
                  ELSE current.items[CHOOSE i \in hits : TRUE][2]
    ELSE IF current.kind = "list"
    THEN LET index == ParseInt(segment)
         IN  IF index.ok /\ 0 <= index.value /\ index.value < Len(current.items)
             THEN current.items[index.value + 1]
             ELSE NoneValue
    ELSE NoneValue

\* one iteration of the loop of _resolve_path: the value the segment leads
\* to from current, NoneValue where the code returns None
ResolveSegment(current, segment) ==
    IF current.kind = "dict"
    THEN IF StartsWith(segment, << "#" >>)
         THEN LET hits == { i \in DOMAIN current.items :
                              StartsWith(current.items[i][1], segment) }
              IN  IF hits = {} THEN NoneValue
                  ELSE current.items[CHOOSE i \in hits : \A j \in hits : i <= j][2]
         ELSE LET hits == { i \in DOMAIN current.items : current.items[i][1] = segment }
              IN  IF hits = {} THEN NoneValue
                  ELSE current.items[CHOOSE i \in hits : TRUE][2]
    ELSE IF current.kind = "list"
    THEN LET index == ParseInt(segment)
         IN  IF index.ok
             THEN IF 0 <= index.value /\ index.value < Len(current.items)
                  THEN current.items[index.value + 1]
                  ELSE NoneValue
             ELSE IF StartsWith(segment, << "#" >>)
                  THEN LET hits == { i \in DOMAIN current.items :
                                       /\ current.items[i].kind = "dict"
                                       /\ \E k \in DOMAIN current.items[i].items :
                                              StartsWith(current.items[i].items[k][1], segment) }
                       IN  IF hits = {} THEN NoneValue
                           ELSE current.items[CHOOSE i \in hits : \A j \in hits : i <= j]
                  ELSE NoneValue
    ELSE NoneValue

\* ReferenceResolver._resolve_path: stops at the first segment that
\* resolves to None
RECURSIVE _resolve_path(_, _)
_resolve_path(obj, path) ==
    IF path = Empty THEN obj
    ELSE LET next == ResolveSegment(obj, path[1])
         IN  IF next = NoneValue THEN NoneValue ELSE _resolve_path(next, Tail(path))

\* a resolver that counts prevK from the oldest entry: buffer[index - 1]
resolve_reference_from_oldest(buffer, ref_token) ==
    IF ~StartsWith(ref_token, << "^" >>) THEN NoneValue
    ELSE LET parts == Split(Slice(ref_token, 1), ".")
         IN  IF StartsWith(parts[1], << "p", "r", "e", "v" >>)
             THEN LET index == ParseInt(Slice(parts[1], 4))
                  IN  IF ~index.ok THEN NoneValue
                      ELSE IF index.value <= 0 \/ index.value > Len(buffer) THEN NoneValue
                      ELSE _resolve_path(buffer[index.value], Tail(parts))
             ELSE IF parts[1] = << "s", "e", "l", "f" >> /\ buffer # Empty
             THEN _resolve_path(buffer[Len(buffer)], Tail(parts))
             ELSE NoneValue

\* a resolver whose self ignores the path: the most recent message itself
resolve_reference_self_unwalked(buffer, ref_token) ==
    IF ~StartsWith(ref_token, << "^" >>) THEN NoneValue
    ELSE LET parts == Split(Slice(ref_token, 1), ".")
         IN  IF StartsWith(parts[1], << "p", "r", "e", "v" >>)
             THEN LET index == ParseInt(Slice(parts[1], 4))
                  IN  IF ~index.ok THEN NoneValue
                      ELSE IF index.value <= 0 \/ index.value > Len(buffer) THEN NoneValue
                      ELSE _resolve_path(buffer[Len(buffer) - index.value + 1], Tail(parts))
             ELSE IF parts[1] = << "s", "e", "l", "f" >> /\ buffer # Empty
             THEN buffer[Len(buffer)]
             ELSE NoneValue

\* ReferenceResolver.resolve_reference on the given context buffer
resolve_reference(buffer, ref_token) ==
    IF ~StartsWith(ref_token, << "^" >>) THEN NoneValue
    ELSE LET parts == Split(Slice(ref_token, 1), ".")
         IN  IF StartsWith(parts[1], << "p", "r", "e", "v" >>)
             THEN LET index == ParseInt(Slice(parts[1], 4))
                  IN  IF ~index.ok THEN NoneValue
                      ELSE IF index.value <= 0 \/ index.value > Len(buffer) THEN NoneValue
                      ELSE _resolve_path(buffer[Len(buffer) - index.value + 1], Tail(parts))
             ELSE IF parts[1] = << "s", "e", "l", "f" >>
             THEN IF buffer = Empty THEN NoneValue
                  ELSE _resolve_path(buffer[Len(buffer)], Tail(parts))
             ELSE IF parts[1] = << "s", "h", "a", "r", "e", "d" >>
             THEN DictValue(<< << << "t", "y", "p", "e" >>,
                                  StrValue(<< "s", "h", "a", "r", "e", "d", "_",
                                              "k", "n", "o", "w", "l", "e", "d", "g", "e" >>) >>,
                               << << "p", "a", "t", "h" >>,
                                  StrValue(Join(Tail(parts), << "." >>)) >> >>)
             ELSE NoneValue

\* a buffer that drops the newest message when it is full: pop() for pop(0)
add_to_context_drop_newest(buffer, max_size, message) ==
    LET appended == Append(buffer, message)
    IN  IF Len(appended) > max_size THEN buffer ELSE appended

\* a buffer that evicts as soon as it reaches the maximum: >= for >
add_to_context_evict_early(buffer, max_size, message) ==
    LET appended == Append(buffer, message)
    IN  IF Len(appended) >= max_size THEN Tail(appended) ELSE appended

\* ReferenceResolver.add_to_context: the buffer after the call
add_to_context(buffer, max_size, message) ==
    LET appended == Append(buffer, message)
    IN  IF Len(appended) > max_size THEN Tail(appended) ELSE appended

(***************************************************************************)
(* The resolver under test                                                 *)
(***************************************************************************)

\* the largest max_context_size a resolver is built with
MaxContextSize == 3

\* the most add_to_context calls in a run
MaxAdded == 4

\* the most resolve_reference calls in a run
MaxResolutions == 2

\* the message bodies added to the context: a focus tag and, in the second,
\* a list that holds a string and a tagged dict, and a second tag that
\* shares a prefix with the first.  serial numbers the
\* add_to_context calls; it is no dict entry and the resolver never reads it
MessageBodies ==
    { << << << "#", "f", "o", "c", "u", "s" >>, StrValue(<< "a" >>) >> >>,
      << << << "#", "f", "o", "c", "u", "s" >>, StrValue(<< "b" >>) >>,
         << << "l", "i", "s", "t" >>,
            ListValue(<< StrValue(<< "x" >>),
                         DictValue(<< << << "#", "i", "1" >>, StrValue(<< "y" >>) >> >>) >>) >>,
         << << "#", "f", "x" >>, StrValue(<< "z" >>) >> >> }

Message(body, serial) == [kind |-> "dict", items |-> body, serial |-> serial]

\* "^prev" + str(k)
PrevToken(k) == << "^", "p", "r", "e", "v" >> \o IntToStr(k)

SelfToken == << "^", "s", "e", "l", "f" >>

\* the paths appended to a token: none, a tag prefix, a list index and a tag
\* inside the list, a key that no message has
Paths ==
    { Empty,
      << ".", "#", "f" >>,
      << ".", "l", "i", "s", "t", ".", "1", ".", "#", "i" >>,
      << ".", "n", "o" >> }

\* the tokens resolved: ^prev0 .. ^prev<MaxContextSize+1> and ^self with
\* each path, a prev without index, a token without sigil, an unknown scope
RefTokens ==
    { PrevToken(k) \o p : k \in 0..(MaxContextSize + 1), p \in Paths }
    \cup { SelfToken \o p : p \in Paths }
    \cup { << "^", "p", "r", "e", "v" >>, << "p", "r", "e", "v", "1" >>,
           << "^", "o", "l", "d" >> }

NoResolution == [calls |-> 0]

InitResolverVars ==
    /\ context_buffer = Empty
    /\ max_context_size \in 1..MaxContextSize
    /\ added = Empty
    /\ resolution = NoResolution

\* resolver.add_to_context(message)
AddToContext ==
    /\ Len(added) < MaxAdded
    /\ \E body \in MessageBodies :
           LET message == Message(body, Len(added) + 1)
           IN  /\ context_buffer' = add_to_context(context_buffer, max_context_size, message)
               /\ added' = Append(added, message)
    /\ UNCHANGED << max_context_size, resolution >>
    /\ UNCHANGED << compilerVars, registryVars, lexerVars, parserVars >>

\* resolver.resolve_reference(ref_token); a run resolves one token, again
\* and again.  The record keeps the call's token and result, the number of
\* messages added before it and the buffer it saw, and the call before it
ResolveReference ==
    /\ resolution.calls < MaxResolutions
    /\ \E ref_token \in RefTokens :
           /\ resolution.calls > 0 => ref_token = resolution.token
           /\ resolution' = [calls  |-> resolution.calls + 1,
                             token  |-> ref_token,
                             result |-> resolve_reference(context_buffer, ref_token),
                             at     |-> Len(added),
                             buffer |-> context_buffer,
                             before |-> resolution]
    /\ UNCHANGED << context_buffer, max_context_size, added >>
    /\ UNCHANGED << compilerVars, registryVars, lexerVars, parserVars >>

(***************************************************************************)
(* class UniversalConceptSpace                                             *)
(* concepts maps a concept id to its dict; the related, hyponyms and       *)
(* hypernyms lists are sequences of ids.                                   *)
(***************************************************************************)

\* the dict of UniversalConceptSpace._initialize_default_concepts
DefaultConceptItems ==
    <<
       << << "c", "1", "4", "2" >>,
          [label |-> "artificial_intelligence",
           definition |-> "The theory and development of computer systems able to perform tasks normally requiring human intelligence",
           related |-> << << "c", "1", "4", "3" >>, << "c", "5", "0", "1" >>, << "c", "8", "9", "0", "1" >> >>,
           hyponyms |-> << << "c", "5", "0", "1" >>, << "c", "9", "8", "7", "2" >> >>,
           hypernyms |-> << << "c", "1", "4", "0" >> >>] >>,
       << << "c", "1", "4", "3" >>,
          [label |-> "natural_intelligence",
           definition |-> "Intelligence demonstrated by humans and animals",
           related |-> << << "c", "1", "4", "2" >> >>,
           hyponyms |-> << << "c", "1", "4", "4" >>, << "c", "1", "4", "5" >> >>,
           hypernyms |-> << << "c", "1", "4", "0" >> >>] >>,
       << << "c", "5", "0", "1" >>,
          [label |-> "machine_learning",
           definition |-> "Computer algorithms that improve automatically through experience",
           related |-> << << "c", "1", "4", "2" >>, << "c", "4", "2", "3", "0" >> >>,
           hyponyms |-> << << "c", "4", "2", "3", "0" >>, << "c", "4", "4", "9", "2" >> >>,
           hypernyms |-> << << "c", "1", "4", "2" >> >>] >>,
       << << "c", "5", "0", "2" >>,
          [label |-> "deep_learning",
           definition |-> "Machine learning based on artificial neural networks with multiple layers",
           related |-> << << "c", "5", "0", "1" >>, << "c", "4", "2", "3", "0" >> >>,
           hyponyms |-> Empty,
           hypernyms |-> << << "c", "5", "0", "1" >> >>] >>,
       << << "c", "1", "4", "2", "5" >>,
          [label |-> "democracy",
           definition |-> "A system of government where power resides with the citizens through elected representatives",
           related |-> << << "c", "1", "4", "2", "6" >>, << "c", "1", "4", "2", "7" >> >>,
           hyponyms |-> << << "c", "1", "4", "2", "8" >>, << "c", "1", "4", "2", "9" >> >>,
           hypernyms |-> << << "c", "1", "4", "2", "0" >> >>] >>,
       << << "c", "2", "9", "0", "1" >>,
          [label |-> "economics",
           definition |-> "The social science that studies the production, distribution, and consumption of goods and services",
           related |-> << << "c", "2", "9", "0", "2" >>, << "c", "2", "9", "0", "3" >> >>,
           hyponyms |-> << << "c", "2", "9", "0", "4" >>, << "c", "2", "9", "0", "5" >> >>,
           hypernyms |-> << << "c", "2", "9", "0", "0" >> >>] >>,
       << << "c", "4", "2", "3", "0" >>,
          [label |-> "neural_networks",
           definition |-> "Computing systems designed to recognize patterns, inspired by the human brain",
           related |-> << << "c", "5", "0", "1" >>, << "c", "4", "2", "3", "1" >> >>,
           hyponyms |-> << << "c", "4", "2", "3", "2" >>, << "c", "4", "2", "3", "3" >> >>,
           hypernyms |-> << << "c", "5", "0", "1" >> >>] >>,
       << << "c", "4", "2", "3", "1" >>,
          [label |-> "deep_learning",
           definition |-> "Machine learning based on artificial neural networks with representation learning",
           related |-> << << "c", "4", "2", "3", "0" >>, << "c", "4", "2", "3", "2" >> >>,
           hyponyms |-> Empty,
           hypernyms |-> << << "c", "4", "2", "3", "0" >> >>] >>,
       << << "c", "4", "4", "9", "2" >>,
          [label |-> "research",
           definition |-> "Systematic investigation to establish facts and reach new conclusions",
           related |-> << << "c", "4", "4", "9", "3" >>, << "c", "4", "4", "9", "4" >> >>,
           hyponyms |-> << << "c", "4", "4", "9", "5" >>, << "c", "4", "4", "9", "6" >> >>,
           hypernyms |-> << << "c", "4", "4", "9", "0" >> >>] >>,
       << << "c", "5", "5", "0", "1" >>,
          [label |-> "environment",
           definition |-> "The surroundings or conditions in which a person, animal, or plant lives or operates",
           related |-> << << "c", "5", "5", "0", "2" >>, << "c", "5", "5", "0", "3" >> >>,
           hyponyms |-> << << "c", "5", "5", "0", "4" >>, << "c", "5", "5", "0", "5" >> >>,
           hypernyms |-> << << "c", "5", "5", "0", "0" >> >>] >>,
       << << "c", "6", "7", "0", "1" >>,
          [label |-> "knowledge_representation",
           definition |-> "The field of AI dedicated to representing information about the world in a form that a computer system can utilize",
           related |-> << << "c", "6", "7", "0", "2" >>, << "c", "6", "7", "0", "3" >> >>,
           hyponyms |-> << << "c", "6", "7", "0", "4" >>, << "c", "6", "7", "0", "5" >> >>,
           hypernyms |-> << << "c", "6", "7", "0", "0" >> >>] >>,
       << << "c", "8", "7", "0", "1" >>,
          [label |-> "rules",
           definition |-> "Prescribed guides for conduct or action",
           related |-> << << "c", "2", "2", "3", "1" >>, << "c", "8", "7", "0", "2" >> >>,
           hyponyms |-> << << "c", "8", "7", "0", "3" >>, << "c", "8", "7", "0", "4" >> >>,
           hypernyms |-> << << "c", "8", "7", "0", "0" >> >>] >>,
       << << "c", "2", "2", "3", "1" >>,
          [label |-> "logic",
           definition |-> "The study of principles of valid reasoning and inference",
           related |-> << << "c", "8", "7", "0", "1" >>, << "c", "2", "2", "3", "2" >> >>,
           hyponyms |-> << << "c", "2", "2", "3", "3" >>, << "c", "2", "2", "3", "4" >> >>,
           hypernyms |-> << << "c", "2", "2", "3", "0" >> >>] >>,
       << << "c", "1", "1", "7" >>,
          [label |-> "climate_change",
           definition |-> "Long-term changes in temperature and weather patterns",
           related |-> << << "c", "5", "5", "0", "1" >>, << "c", "1", "1", "8" >> >>,
           hyponyms |-> << << "c", "1", "1", "9" >>, << "c", "1", "2", "0" >> >>,
           hypernyms |-> << << "c", "1", "1", "5" >> >>] >>
    >>

DefaultConcepts ==
    [id \in { DefaultConceptItems[i][1] : i \in DOMAIN DefaultConceptItems } |->
        DefaultConceptItems[CHOOSE i \in DOMAIN DefaultConceptItems :
                                DefaultConceptItems[i][1] = id][2]]

SetMax(S) == CHOOSE x \in S : \A y \in S : y <= x

\* the numbers of the keys whose text after the first character is digits
NumericIds(cs) == { DigitsToInt(Tail(cid)) : cid \in { k \in DOMAIN cs : IsDigitStr(Tail(k)) } }

\* a registry that numbers a new concept by how many it holds
NewConceptIdByCount(cs) == << "c" >> \o IntToStr(Cardinality(DOMAIN cs) + 1)

\* the id add_concept gives the next concept: "c" + str(max + 1)
NewConceptId(cs) == << "c" >> \o IntToStr(SetMax(NumericIds(cs)) + 1)

\* one of the three back-patching loops of add_concept: new_id is appended
\* to the list `field` of every id of ids that is a key and does not list it
RECURSIVE BackPatch(_, _, _, _)
BackPatch(cs, ids, field, new_id) ==
    IF ids = Empty THEN cs
    ELSE BackPatch(
             IF ids[1] \in DOMAIN cs /\ new_id \notin Range(cs[ids[1]][field])
             THEN [cs EXCEPT ![ids[1]][field] = Append(@, new_id)]
             ELSE cs,
             Tail(ids), field, new_id)

\* the entry add_concept stores under the new id: the argument lists as given
NewConcept(label, definition, related, hyponyms, hypernyms) ==
    [label |-> label, definition |-> definition,
     related |-> related, hyponyms |-> hyponyms, hypernyms |-> hypernyms]

\* a registry whose hyponym loop patches the list it read from: the new id
\* is appended to the hyponyms, not the hypernyms, of each hyponym
add_concept_same_field(cs, label, definition, related, hyponyms, hypernyms) ==
    LET new_id == NewConceptId(cs)
        stored == [id \in DOMAIN cs \cup { new_id } |->
                      IF id = new_id
                      THEN NewConcept(label, definition, related, hyponyms, hypernyms)
                      ELSE cs[id]]
        patched == BackPatch(
                       BackPatch(
                           BackPatch(stored, related, "related", new_id),
                           hyponyms, "hyponyms", new_id),
                       hypernyms, "hyponyms", new_id)
    IN  [concepts |-> patched, new_id |-> new_id]

\* UniversalConceptSpace.add_concept: the registry after the call and the
\* id returned.  A None argument behaves as the empty list
add_concept(cs, label, definition, related, hyponyms, hypernyms) ==
    LET new_id == NewConceptId(cs)
        stored == [id \in DOMAIN cs \cup { new_id } |->
                      IF id = new_id
                      THEN NewConcept(label, definition, related, hyponyms, hypernyms)
                      ELSE cs[id]]
        patched == BackPatch(
                       BackPatch(
                           BackPatch(stored, related, "related", new_id),
                           hyponyms, "hypernyms", new_id),
                       hypernyms, "hyponyms", new_id)
    IN  [concepts |-> patched, new_id |-> new_id]

(***************************************************************************)
(* The registry under test                                                 *)
(***************************************************************************)

\* the most add_concept calls of a kind in a run
MaxAddConcepts == 2

\* the lists passed as related, hyponyms or hypernyms: none; an id of the
\* registry twice; an id of the registry that already lists c8702, then
\* c8702 (the first id add_concept hands out), then an id that is no key
ArgLists ==
    { Empty,
      << << "c", "1", "4", "2" >>, << "c", "1", "4", "2" >> >>,
      << << "c", "8", "7", "0", "1" >>, << "c", "8", "7", "0", "2" >>,
         << "c", "9", "9", "9", "9" >> >> }

NoAdd == [calls |-> 0]

\* the list the caller keeps: one id of the registry; no concept holds it yet
KeptList == [items |-> << << "c", "1", "4", "2" >> >>, holders |-> {}, calls |-> 0]

\* "related": related or [] stores the list passed, not a copy, and the
\* back-patching loops append to the stored lists in place: a concept whose
\* related list is the caller's list shows what is appended to that list
\* through any other holder.  after is the registry add_concept computes
\* on the lists' items; holders are the concepts that hold the list
InPlace(before, after, k, holders) ==
    LET appended == { id \in k.holders : after[id].related # before[id].related }
        items    == IF appended = {} THEN k.items
                    ELSE after[CHOOSE id \in appended : TRUE].related
    IN  [concepts |-> [id \in DOMAIN after |->
                          IF id \in holders
                          THEN [after[id] EXCEPT !.related = items]
                          ELSE after[id]],
         kept |-> [k EXCEPT !.items = items, !.holders = holders]]

\* the host threads that call add_concept on the one registry
Threads == { "t1", "t2" }

\* a thread that has not called add_concept
NotCalling == [pc |-> "idle"]

InitRegistryVars ==
    /\ concepts = DefaultConcepts
    /\ last_add = NoAdd
    /\ threads = [t \in Threads |-> NotCalling]
    /\ kept = KeptList

\* registry.add_concept("x", "def", related, hyponyms, hypernyms); max()
\* raises on a registry without a numeric id, which leaves it as it was
AddConcept ==
    /\ last_add.calls - kept.calls < MaxAddConcepts
    /\ NumericIds(concepts) # {}
    /\ \E related \in ArgLists, hyponyms \in ArgLists, hypernyms \in ArgLists :
           LET r == add_concept(concepts, "x", "def", related, hyponyms, hypernyms)
               stored == InPlace(concepts, r.concepts, kept, kept.holders)
           IN  /\ concepts' = stored.concepts
               /\ kept' = stored.kept
               /\ last_add' = [calls |-> last_add.calls + 1, new_id |-> r.new_id,
                               related |-> related, hyponyms |-> hyponyms,
                               hypernyms |-> hypernyms, before |-> concepts]
    /\ UNCHANGED threads
    /\ UNCHANGED << compilerVars, resolverVars, lexerVars, parserVars >>

\* registry.add_concept("x", "def", related=KEPT) by a caller that passes
\* the list it keeps; it makes these calls before any other
AddConceptKeptList ==
    /\ kept.calls < MaxAddConcepts
    /\ last_add.calls = kept.calls
    /\ NumericIds(concepts) # {}
    /\ LET r == add_concept(concepts, "x", "def", kept.items, Empty, Empty)
           stored == InPlace(concepts, r.concepts, kept, kept.holders \cup { r.new_id })
       IN  /\ concepts' = stored.concepts
           /\ kept' = [stored.kept EXCEPT !.calls = @ + 1]
           /\ last_add' = [calls |-> last_add.calls + 1, new_id |-> r.new_id,
                           related |-> kept.items, hyponyms |-> Empty,
                           hypernyms |-> Empty, before |-> concepts]
    /\ UNCHANGED threads
    /\ UNCHANGED << compilerVars, resolverVars, lexerVars, parserVars >>

(***************************************************************************)
(* The registry under two host threads: add_concept run statement by       *)
(* statement, with no lock around it                                       *)
(***************************************************************************)

\* thread t calls add_concept(t, "def", related, hyponyms) and runs the
\* statement that computes new_id from the keys it sees.  raced records
\* whether another call had computed its id and not yet stored its concept
ComputeNewId(t) ==
    /\ threads[t].pc = "idle"
    /\ NumericIds(concepts) # {}
    /\ \E related \in ArgLists, hyponyms \in ArgLists :
           threads' = [threads EXCEPT ![t] =
                          [pc |-> "computed", label |-> t,
                           related |-> related, hyponyms |-> hyponyms,
                           new_id |-> NewConceptId(concepts),
                           raced |-> \E u \in Threads \ {t} : threads[u].pc = "computed"]]
    /\ UNCHANGED << concepts, last_add, kept >>
    /\ UNCHANGED << compilerVars, resolverVars, lexerVars, parserVars >>

\* self.concepts[new_id] = {...}: a new key, or a key another call stored
StoreConcept(t) ==
    /\ threads[t].pc = "computed"
    /\ LET c == threads[t]
       IN  concepts' = [id \in DOMAIN concepts \cup { c.new_id } |->
                           IF id = c.new_id
                           THEN NewConcept(c.label, "def", c.related, c.hyponyms, Empty)
                           ELSE concepts[id]]
    /\ threads' = [threads EXCEPT ![t].pc = "stored"]
    /\ UNCHANGED << last_add, kept >>
    /\ UNCHANGED << compilerVars, resolverVars, lexerVars, parserVars >>

\* the back-patching loops and the return of new_id
PatchAndReturn(t) ==
    /\ threads[t].pc = "stored"
    /\ LET c == threads[t]
       IN  concepts' = BackPatch(BackPatch(concepts, c.related, "related", c.new_id),
                                 c.hyponyms, "hypernyms", c.new_id)
    /\ threads' = [threads EXCEPT ![t].pc = "returned"]
    /\ UNCHANGED << last_add, kept >>
    /\ UNCHANGED << compilerVars, resolverVars, lexerVars, parserVars >>

(***************************************************************************)
(* The scanner under test: Lexer.tokenize run one loop iteration at a time *)
(* on a fresh Lexer                                                        *)
(***************************************************************************)

\* the most characters a scanned source holds after its head
MaxSourceLen == 3

\* the characters sources are written with: a blank, a newline, the start
\* of a version marker, a sigil, an operator, a letter, the underscore, and
\* a dot, for which outside a version marker the scanner has no token
Alphabet == { " ", "\n", "@", "#", "+", "a", "_", "." }

\* the strings of exactly n characters
RECURSIVE Strings(_)
Strings(n) ==
    IF n = 0 THEN { Empty }
    ELSE { << ch >> \o s : ch \in Alphabet, s \in Strings(n - 1) }

\* what a scanned source starts with: nothing, a version marker cut before
\* its dot, a whole version marker
ScanHeads == { Empty, << "@", "v", "1" >>, GoodHead }

\* the scanned sources
ScanSources ==
    { h \o s : h \in ScanHeads, s \in UNION { Strings(n) : n \in 0..MaxSourceLen } }

IdleLexerVars ==
    /\ lexer = NewLexer(Empty)
    /\ tokenize_pc = "idle"

\* Lexer(src) followed by the call of tokenize
InitLexerVars ==
    /\ \E src \in ScanSources : lexer = NewLexer(src)
    /\ tokenize_pc = "loop"

\* one iteration of the while loop of tokenize
TokenizeLoop ==
    /\ tokenize_pc = "loop"
    /\ lexer.position < Len(lexer.source)
    /\ lexer' = TokenizeStep(lexer)
    /\ UNCHANGED tokenize_pc
    /\ UNCHANGED << compilerVars, resolverVars, registryVars, parserVars >>

\* the loop condition fails: the Eof token is added and tokenize returns
TokenizeReturn ==
    /\ tokenize_pc = "loop"
    /\ ~(lexer.position < Len(lexer.source))
    /\ lexer' = _add_token(lexer, "EOF", Empty)
    /\ tokenize_pc' = "returned"
    /\ UNCHANGED << compilerVars, resolverVars, registryVars, parserVars >>

(***************************************************************************)
(* The parser under test: Parser(tokens).parse(), one step per evaluation  *)
(* of a body loop's condition.  stack holds the parse functions the call   *)
(* is in, _parse_message first: each with the node it is filling.          *)
(***************************************************************************)

\* the most lexemes after the head of a parsed source
MaxLexemes == 4

\* the lexemes of a parsed source: braces, a concept, a quantifier, an
\* identifier (a property in a quantifier, unexpected elsewhere)
Lexemes == { << "{" >>, << "}" >>, << "#", "b" >>, << "$", "q" >>, << "a" >> }

RECURSIVE LexemeLists(_)
LexemeLists(n) ==
    IF n = 0 THEN { Empty }
    ELSE { << x >> \o rest : x \in Lexemes, rest \in LexemeLists(n - 1) }

\* what a parsed source starts with: nothing, the version marker, the
\* version marker and the opening brace
ParseHeads == { Empty, << GoodHead >>, << GoodHead, << "{" >> >> }

\* the sources parsed: the lexemes separated by one space
ParseSources ==
    { Join(h \o body, << " " >>) :
          h \in ParseHeads, body \in UNION { LexemeLists(n) : n \in 0..MaxLexemes } }

\* Parser.__init__ on the tokens of a source, parse about to be called
NewParser(tokens) ==
    [tokens |-> ParserTokens(tokens), current |-> 0, errors |-> Empty,
     stack |-> Empty, pc |-> "start", ast |-> None]

IdleParserVars == parser = [NewParser(<< Token("EOF", Empty, 1, 1) >>) EXCEPT !.pc = "idle"]

InitParserVars == parser \in { NewParser(tokenize(NewLexer(src)).tokens) : src \in ParseSources }

\* _error raised at the current token and caught by parse: the text is
\* appended by _error and again by parse, which returns the degenerate node
Raise(p, message, detail) ==
    LET failure == _error(p.tokens, p.current, message, detail)
    IN  [p EXCEPT !.pc = "returned", !.stack = Empty,
                  !.errors = @ \o << failure.error, failure.error >>,
                  !.ast = ASTNode("MESSAGE", << "E", "r", "r", "o", "r" >>, Empty,
                                  [error |-> failure.error])]

\* the parse function a child token starts, and the node type of the child
ChildContext(type) ==
    CASE type = "CONCEPT" -> "concept" [] type = "RELATION" -> "relation"
      [] type = "QUANTIFIER" -> "quantifier" [] OTHER -> "none"

ChildType(type) == IF type = "IDENTIFIER" THEN "PROPERTY" ELSE type

\* the innermost parse function and its loop condition
Innermost(p) == p.stack[Len(p.stack)]

LoopCondition(p) ==
    ~_check(p.tokens, p.current, "CLOSE_BRACE") /\ ~_is_at_end(p.tokens, p.current)

\* the stack with a child added to the node of its innermost function
WithChild(stack, child) ==
    [stack EXCEPT ![Len(stack)].node.children = Append(@, child)]

\* parse() entering _parse_message: the version marker and the opening brace
ParseMessage ==
    /\ parser.pc = "start"
    /\ parser' =
           IF ~_check(parser.tokens, 0, "VERSION")
           THEN Raise(parser, "Expected version marker (@v1.0)", Empty)
           ELSE IF ~_check(parser.tokens, 1, "OPEN_BRACE")
           THEN Raise([parser EXCEPT !.current = 1],
                      "Expected '{' after version marker", Empty)
           ELSE [parser EXCEPT
                    !.pc = "body", !.current = 2,
                    !.stack = << [ctx |-> "message",
                                  node |-> ASTNode("MESSAGE", None,
                                               << ASTNode("VERSION", _peek(parser.tokens, 0).value,
                                                          Empty, Empty) >>,
                                               Empty)] >>]
    /\ UNCHANGED << compilerVars, resolverVars, registryVars, lexerVars >>

\* an else branch that reports the token and goes round the loop again
\* without advancing
ParseIterationReportAndRetry ==
    /\ parser.pc = "body" /\ LoopCondition(parser)
    /\ LET top == Innermost(parser)
           tok == _peek(parser.tokens, parser.current)
           child == ASTNode(ChildType(tok.type), tok.value, Empty, Empty)
       IN  parser' =
               IF tok.type \notin BodyTypes(top.ctx)
               THEN [parser EXCEPT !.errors =
                         Append(@, _error(parser.tokens, parser.current,
                                          UnexpectedMessage(top.ctx), tok.value).error)]
               ELSE IF /\ ChildContext(tok.type) # "none"
                       /\ _check(parser.tokens, parser.current + 1, "OPEN_BRACE")
               THEN [parser EXCEPT
                        !.current = @ + 2,
                        !.stack = Append(@, [ctx |-> ChildContext(tok.type), node |-> child])]
               ELSE [parser EXCEPT !.current = @ + 1, !.stack = WithChild(@, child)]
    /\ UNCHANGED << compilerVars, resolverVars, registryVars, lexerVars >>

\* one iteration of the innermost body loop, its condition true: a child
\* token is matched and consumed and either its node is added or, with a
\* '{' consumed after it, its parse function is entered; any other token
\* raises
ParseIteration ==
    /\ parser.pc = "body" /\ LoopCondition(parser)
    /\ LET top == Innermost(parser)
           tok == _peek(parser.tokens, parser.current)
           child == ASTNode(ChildType(tok.type), tok.value, Empty, Empty)
       IN  parser' =
               IF tok.type \notin BodyTypes(top.ctx)
               THEN Raise(parser, UnexpectedMessage(top.ctx), tok.value)
               ELSE IF /\ ChildContext(tok.type) # "none"
                       /\ _check(parser.tokens, parser.current + 1, "OPEN_BRACE")
               THEN [parser EXCEPT
                        !.current = @ + 2,
                        !.stack = Append(@, [ctx |-> ChildContext(tok.type), node |-> child])]
               ELSE [parser EXCEPT !.current = @ + 1, !.stack = WithChild(@, child)]
    /\ UNCHANGED << compilerVars, resolverVars, registryVars, lexerVars >>

\* the innermost body loop ends, its condition false: _consume takes the
\* '}' and the function returns its node to the loop that called it, or to
\* parse; anything else raises
ParseClose ==
    /\ parser.pc = "body" /\ ~LoopCondition(parser)
    /\ LET top == Innermost(parser)
           outer == SubSeq(parser.stack, 1, Len(parser.stack) - 1)
       IN  parser' =
               IF ~_check(parser.tokens, parser.current, "CLOSE_BRACE")
               THEN Raise(parser, CloseMessage(top.ctx), Empty)
               ELSE IF outer = Empty
               THEN [parser EXCEPT !.pc = "returned", !.current = @ + 1,
                                   !.stack = Empty, !.ast = top.node]
               ELSE [parser EXCEPT !.current = @ + 1, !.stack = WithChild(outer, top.node)]
    /\ UNCHANGED << compilerVars, resolverVars, registryVars, lexerVars >>

(***************************************************************************)
(* Specifications: one per component; the other components stay as built   *)
(***************************************************************************)

IdleCompilerVars ==
    /\ doc = [head |-> GoodHead, content |-> Empty, tail |-> Empty]
    /\ source = Render(doc)
    /\ compiler = NewCompiler(source, CheckerConceptSpace)
    /\ other = NoOther
    /\ reopt = NotReoptimized

InitCompiler ==
    /\ InitCompilerVars
    /\ InitResolverVars /\ max_context_size = 1
    /\ InitRegistryVars
    /\ IdleLexerVars /\ IdleParserVars

NextCompiler ==
    \/ Compile
    \/ CompilePrinted
    \/ CompileReorderedTop
    \/ CompileReorderedNested
    \/ CompileAgain
    \/ Reoptimize

SpecCompiler == InitCompiler /\ [][NextCompiler]_vars

InitResolver ==
    /\ IdleCompilerVars /\ InitResolverVars /\ InitRegistryVars
    /\ IdleLexerVars /\ IdleParserVars

NextResolver ==
    \/ AddToContext
    \/ ResolveReference

SpecResolver == InitResolver /\ [][NextResolver]_vars

InitRegistry ==
    /\ IdleCompilerVars
    /\ InitResolverVars /\ max_context_size = 1
    /\ InitRegistryVars
    /\ IdleLexerVars /\ IdleParserVars

NextRegistry ==
    \/ AddConcept
    \/ AddConceptKeptList

SpecRegistry == InitRegistry /\ [][NextRegistry]_vars

NextRegistryThreads ==
    \/ \E t \in Threads : ComputeNewId(t)
    \/ \E t \in Threads : StoreConcept(t)
    \/ \E t \in Threads : PatchAndReturn(t)

SpecRegistryThreads == InitRegistry /\ [][NextRegistryThreads]_vars

InitLexer ==
    /\ IdleCompilerVars
    /\ InitResolverVars /\ max_context_size = 1
    /\ InitRegistryVars
    /\ InitLexerVars /\ IdleParserVars

NextLexer ==
    \/ TokenizeLoop
    \/ TokenizeReturn

SpecLexer == InitLexer /\ [][NextLexer]_vars

\* tokenize is one sequential call: a step that can be taken is taken
SpecLexerFair == SpecLexer /\ WF_vars(NextLexer)

InitParser ==
    /\ IdleCompilerVars
    /\ InitResolverVars /\ max_context_size = 1
    /\ InitRegistryVars
    /\ IdleLexerVars /\ InitParserVars

NextParser ==
    \/ ParseMessage
    \/ ParseIteration
    \/ ParseClose

SpecParser == InitParser /\ [][NextParser]_vars

\* parse is one sequential call: a step that can be taken is taken
SpecParserFair == SpecParser /\ WF_vars(NextParser)

(***************************************************************************)
(* Properties of the compiler pipeline (checked under SpecCompiler)        *)
(***************************************************************************)

\* both compilers accepted their source
BothCompiled == compiler.ok /\ other.compiler.ok

\* no two top-level items of the canonical IR share the sort key
\* (type, id or '', name or '')
DistinctTopKeys ==
    /\ Has(compiler.optimized_ir, "content")
    /\ \A i, j \in DOMAIN compiler.optimized_ir.content :
           i # j => SortKey(compiler.optimized_ir.content[i])
                    # SortKey(compiler.optimized_ir.content[j])

C2_RoundTripKeepsTheIR ==
    other.relation = "printed"
        => /\ other.compiler.ok
           /\ other.compiler.optimized_ir = compiler.optimized_ir

\* C3: for every source that compiles, the printed output lexes without
\* ERROR tokens, parses without a parse error, passes the semantic check
\* with an empty error list, and so compiles.
C3_PrintedOutputCompiles ==
    other.relation = "printed"
        => /\ \A i \in DOMAIN other.compiler.tokens :
                  other.compiler.tokens[i].type # "ERROR"
           /\ other.compiler.errors = Empty
           /\ other.compiler.ok

\* a message with a nested body and a second top-level item was printed and
\* the printed text was compiled
C3_Witness ==
    /\ other.relation = "printed" /\ other.compiler.ok
    /\ Len(doc.content) = 2
    /\ \E i \in DOMAIN doc.content : doc.content[i].children # Empty
    /\ other.compiler.generated_code = compiler.generated_code

\* C4: Optimizer.optimize applied to optimize(x) returns optimize(x), for
\* every IR x lowered from a parsed message: same version, same content
\* order, same children order at every depth.
C4_OptimizeIsIdempotent ==
    reopt.done => reopt.ir = compiler.optimized_ir

\* the canonical IR of a message whose content the optimizer had to reorder
\* was optimized again
C4_Witness ==
    /\ reopt.done
    /\ Has(compiler.ir, "content")
    /\ compiler.ir.content # compiler.optimized_ir.content
    /\ reopt.ir = compiler.optimized_ir

\* the first token the parser sees is not a version marker
FirstTokenNotVersion == ParserTokens(compiler.tokens)[1].type # "VERSION"

\* the messages whose text contains the word "version"
VersionMessages ==
    { "Expected version marker (@v1.0)", "Expected '{' after version marker",
      "Message missing version marker" }

\* C10: a source whose first non-whitespace token is not a well-formed
\* version marker fails to compile, and the error text returned contains
\* the word "version".
C10_MissingVersionFails ==
    (Compiled /\ FirstTokenNotVersion)
        => /\ ~compiler.ok
           /\ \E i \in DOMAIN compiler.output.lines :
                  compiler.output.lines[i].message \in VersionMessages

\* the source {#b}, which has no version marker, was compiled
C10_Witness ==
    /\ Compiled /\ FirstTokenNotVersion
    /\ source = << "{", "#", "b", "}" >>
    /\ ~compiler.ok

(***************************************************************************)
(* Properties of the reference resolver (checked under SpecResolver)       *)
(***************************************************************************)

Min(a, b) == IF a < b THEN a ELSE b

\* the k-th most recently added message, by the history of the calls
KthMostRecent(k) == added[Len(added) - k + 1]

\* C5: in every state of the context buffer, ^prevK returns the K-th most
\* recently added entry for 1 <= K <= len(buffer); ^prev0 and ^prev<len+1>
\* return not-found.
C5_PrevKIsKthMostRecent ==
    /\ \A k \in 1..Len(context_buffer) :
           resolve_reference(context_buffer, PrevToken(k)) = KthMostRecent(k)
    /\ resolve_reference(context_buffer, PrevToken(0)) = NoneValue
    /\ resolve_reference(context_buffer, PrevToken(Len(context_buffer) + 1)) = NoneValue

\* ^prev2 was resolved on a buffer that had already evicted a message, and
\* returned the message added before the last one
C5_Witness ==
    /\ resolution.calls > 0
    /\ resolution.token = PrevToken(2)
    /\ resolution.at = Len(added)
    /\ Len(added) > max_context_size
    /\ resolution.result = KthMostRecent(2)

\* C6: the buffer never holds more than max_context_size messages, and it
\* holds exactly the min(n, N) most recently added ones, in the order they
\* were added.
C6_BoundedFifo ==
    LET n == Len(added)
        m == Min(n, max_context_size)
    IN  /\ Len(context_buffer) <= max_context_size
        /\ context_buffer = SubSeq(added, n - m + 1, n)

\* more messages were added than a buffer of two or more holds
C6_Witness ==
    /\ max_context_size >= 2
    /\ Len(added) > max_context_size
    /\ Len(context_buffer) = max_context_size

\* the parts of the token of the last resolve_reference call
ResolvedParts == Split(Slice(resolution.token, 1), ".")

\* the last call resolved a token ^prevK..., K >= 1, for the second time,
\* and exactly one message was added since the call before it
ResolvedAgainAfterOneAdd ==
    /\ resolution.calls >= 2
    /\ resolution.at = resolution.before.at + 1
    /\ StartsWith(resolution.token, << "^", "p", "r", "e", "v" >>)
    /\ ParseInt(Slice(ResolvedParts[1], 4)).ok
    /\ ParseInt(Slice(ResolvedParts[1], 4)).value >= 1

\* C7: a prevK reference is bound when it is resolved.  When a message m is
\* added between two resolutions of one token ^prevK.<path>, the second
\* walks the path in the entry that is K-th most recent after the addition:
\* m for K = 1, the entry that was (K-1)-th most recent before for K > 1;
\* it fails when fewer than K of the added messages are held (the buffer
\* holds the last min(n, N) of the n added), and it never returns the
\* entry the first resolution returned.
C7_BoundAtResolutionTime ==
    ResolvedAgainAfterOneAdd =>
        LET k    == ParseInt(Slice(ResolvedParts[1], 4)).value
            path == Tail(ResolvedParts)
            m    == added[resolution.at]
            old  == resolution.before.buffer
            held == Min(resolution.at, max_context_size)
        IN  /\ k <= held =>
                  /\ resolution.result
                         = _resolve_path(added[resolution.at - k + 1], path)
                  /\ k = 1 => resolution.result = _resolve_path(m, path)
                  /\ k > 1 => resolution.result
                                  = _resolve_path(old[Len(old) - (k - 1) + 1], path)
            /\ k > held => resolution.result = NoneValue
            /\ (path = Empty /\ resolution.result # NoneValue)
                   => resolution.result # resolution.before.result

\* ^prev2.#f was resolved, a message with another focus was added, and the
\* same token was resolved again: both found a focus, and not the same one
C7_Witness ==
    /\ ResolvedAgainAfterOneAdd
    /\ resolution.token = PrevToken(2) \o << ".", "#", "f" >>
    /\ resolution.before.result # NoneValue
    /\ resolution.result # NoneValue
    /\ resolution.result # resolution.before.result

(***************************************************************************)
(* Properties of the concept registry (checked under SpecRegistry)         *)
(***************************************************************************)

\* C8: after add_concept returns the new id n, every id of related that is
\* in the registry lists n as related, every id of hyponyms that is in the
\* registry lists n as a hypernym, and every id of hypernyms that is in the
\* registry lists n as a hyponym.
C8_InverseEdgesPatched ==
    last_add.calls > 0 =>
        /\ \A id \in Range(last_add.related) :
               id \in DOMAIN concepts => last_add.new_id \in Range(concepts[id].related)
        /\ \A id \in Range(last_add.hyponyms) :
               id \in DOMAIN concepts => last_add.new_id \in Range(concepts[id].hypernyms)
        /\ \A id \in Range(last_add.hypernyms) :
               id \in DOMAIN concepts => last_add.new_id \in Range(concepts[id].hyponyms)

\* a second concept was added with c8701 among its hyponyms and c142 among
\* its hypernyms: both existed before and neither listed the new id
C8_Witness ==
    /\ last_add.calls = 2
    /\ << "c", "8", "7", "0", "1" >> \in Range(last_add.hyponyms)
    /\ << "c", "1", "4", "2" >> \in Range(last_add.hypernyms)
    /\ last_add.new_id \notin Range(last_add.before[<< "c", "8", "7", "0", "1" >>].hypernyms)
    /\ last_add.new_id \in Range(concepts[<< "c", "8", "7", "0", "1" >>].hypernyms)
    /\ last_add.new_id \in Range(concepts[<< "c", "1", "4", "2" >>].hyponyms)

\* a list holds no id twice
NoDuplicates(ids) == \A i, j \in DOMAIN ids : ids[i] = ids[j] => i = j

\* C9: after any sequence of add_concept calls on the default registry, no
\* concept's related, hyponyms or hypernyms list holds an id twice.
C9_NoDuplicateEdges ==
    \A id \in DOMAIN concepts :
        /\ NoDuplicates(concepts[id].related)
        /\ NoDuplicates(concepts[id].hyponyms)
        /\ NoDuplicates(concepts[id].hypernyms)

(***************************************************************************)
(* Properties of the grammar (checked under SpecCompiler)                  *)
(***************************************************************************)

\* the kind of a written tag, by its sigil
TagKind(tag) ==
    CASE tag[1] = "#" -> "concept"
      [] tag[1] = "~" -> "relation"
      [] tag[1] = "$" -> "quantifier"
      [] tag[1] = "^" -> "reference"
      [] OTHER        -> "identifier"

\* the (kind of parent, kind of child, depth of the parent) of every tag
\* written directly inside the body of another tag
RECURSIVE Nestings(_, _)
Nestings(items, depth) ==
    UNION { { << TagKind(items[i].tag), TagKind(items[i].children[j].tag), depth >> :
                  j \in DOMAIN items[i].children }
            \cup Nestings(items[i].children, depth + 1) : i \in DOMAIN items }

\* the kinds of the tags written directly in the message body
TopKinds == { TagKind(doc.content[i].tag) : i \in DOMAIN doc.content }

\* the nestings the claim names as forbidden
ForbiddenNestings ==
    { << "relation", "quantifier" >>, << "quantifier", "relation" >>,
      << "quantifier", "reference" >> }

\* the parse of the written message raised: the degenerate node came back
ParseFailed == Has(compiler.ast.attributes, "error")

\* the written message holds a forbidden nesting
WritesForbidden ==
    \E n \in Nestings(doc.content, 1) : << n[1], n[2] >> \in ForbiddenNestings

\* the written message has a version marker, only concepts have bodies, no
\* plain identifier is written, and a quantifier stands directly in a
\* concept body
WritesQuantifierInConcept ==
    /\ doc.head = GoodHead
    /\ "identifier" \notin TopKinds
    /\ \A n \in Nestings(doc.content, 1) : n[1] = "concept" /\ n[2] # "identifier"
    /\ \E n \in Nestings(doc.content, 1) : n[2] = "quantifier"

\* C11: a quantifier directly inside a relation body, and a relation or a
\* reference directly inside a quantifier body, always make the parse fail;
\* a quantifier directly inside a concept body is accepted; at every depth.
C11_GrammarAsymmetry ==
    Compiled =>
        /\ WritesForbidden => (ParseFailed /\ ~compiler.ok)
        /\ WritesQuantifierInConcept => (~ParseFailed /\ compiler.ok)

\* @v1.0{#b{~r{$q}}} was compiled: the quantifier in the concept's relation,
\* two levels down, made the parse fail
C11_WitnessRejected ==
    /\ Compiled /\ doc.head = GoodHead
    /\ << "relation", "quantifier", 2 >> \in Nestings(doc.content, 1)
    /\ ParseFailed

\* a message with a quantifier in a concept in a concept was compiled and
\* accepted
C11_WitnessAccepted ==
    /\ Compiled /\ WritesQuantifierInConcept
    /\ << "concept", "quantifier", 2 >> \in Nestings(doc.content, 1)
    /\ compiler.ok

(***************************************************************************)
(* Properties of error handling (checked under SpecCompiler)               *)
(***************************************************************************)

\* the semantic check of the written message found an error
SemanticFailed == ~ParseFailed /\ compiler.errors # Empty

\* C12: whenever compile returns ok = false, its output is the joined error
\* list, the error list is not empty, and the generated code, the IR and
\* the canonical IR are unset: no partial program.
C12_FailedCompileHasNoProgram ==
    (Compiled /\ ~compiler.ok) =>
        /\ compiler.errors # Empty
        /\ compiler.output = JoinLines(compiler.errors)
        /\ compiler.generated_code = None
        /\ compiler.ir = None
        /\ compiler.optimized_ir = None

\* @v1.0{#b ^prevx} was compiled: it parsed, the semantic check found the
\* prev index invalid, and compile returned that error
C12_Witness ==
    /\ Compiled /\ ~compiler.ok /\ SemanticFailed
    /\ Len(doc.content) = 2
    /\ compiler.ast.children # Empty
    /\ compiler.output.lines = << Diagnostic("Invalid prev index: ", << "p", "r", "e", "v", "x" >>) >>

\* what the semantic check finds in the tree the parser returned
Findings == analyze(compiler.ast, compiler.concept_space)

\* the fixed texts of the three warnings
WarningMessages ==
    { "Unknown concept ID: ", "Unusual reference type: ", "Message has no content nodes" }

\* C13: a source that parses and whose semantic check yields no error, only
\* warnings, compiles with ok = true, and get_warnings returns exactly those
\* warnings afterwards.
C13_WarningsDoNotBlock ==
    (Compiled /\ ~ParseFailed /\ Findings.errors = Empty) =>
        /\ compiler.ok
        /\ compiler.generated_code # None
        /\ compiler.warnings = Findings.warnings
        /\ \A i \in DOMAIN compiler.warnings :
               compiler.warnings[i].message \in WarningMessages

\* @v1.0{#c2 ^foo.x} was compiled: the unknown concept id and the unusual
\* reference scope are both warned about, and the compile succeeded
C13_Witness ==
    /\ Compiled /\ compiler.ok
    /\ compiler.warnings =
           << Diagnostic("Unknown concept ID: ", << "c", "2" >>),
              Diagnostic("Unusual reference type: ", << "f", "o", "o" >>) >>

\* @v1.0{} was compiled: the empty body is warned about, and the compile
\* succeeded
C13_WitnessEmptyBody ==
    /\ Compiled /\ compiler.ok
    /\ doc.content = Empty
    /\ compiler.warnings = << Diagnostic("Message has no content nodes", Empty) >>

\* C14: after a parse that fails the parser's error list holds exactly one
\* entry, so the text a compile that fails in the parser returns holds that
\* message exactly once.
C14_SingleParseError ==
    (Compiled /\ ParseFailed) =>
        /\ Len(compiler.errors) = 1
        /\ Len(compiler.output.lines) = 1

\* the written message makes the parser raise: it has no version marker, or
\* a plain identifier or a character without a token directly in the message
\* body, or a forbidden nesting
WritesParseError ==
    \/ doc.head # GoodHead
    \/ "identifier" \in TopKinds
    \/ WritesForbidden

\* C15: on a parse abort, at whatever depth, parse returns a degenerate
\* Message node: value 'Error', no children, the error text under the error
\* attribute; nothing built before the abort is returned.
C15_AbortReturnsDegenerateNode ==
    (Compiled /\ (WritesParseError \/ ~_parse_message(ParserTokens(compiler.tokens)).ok)) =>
        /\ compiler.ast.type = "MESSAGE"
        /\ compiler.ast.value = << "E", "r", "r", "o", "r" >>
        /\ compiler.ast.children = Empty
        /\ DOMAIN compiler.ast.attributes = {"error"}
        /\ compiler.ast.attributes.error = compiler.errors[1]
        /\ ~compiler.ok

\* @v1.0{#b ~r{$q}} was compiled: the parser had built the version node and
\* the concept when the quantifier in the relation made it abort
C15_Witness ==
    /\ Compiled /\ doc.head = GoodHead
    /\ Len(doc.content) = 2
    /\ TagKind(doc.content[1].tag) = "concept"
    /\ << "relation", "quantifier", 1 >> \in Nestings(doc.content, 1)
    /\ compiler.ast.children = Empty
    /\ compiler.ast.attributes.error.message = "Unexpected token in relation: "

\* the scanner emitted an Error token for the source
ScannedAnomaly == \E i \in DOMAIN compiler.tokens : compiler.tokens[i].type = "ERROR"

\* C16: whenever the scanner emits an Error token for a source, wherever in
\* the text, compile of that source fails with a parse error.
C16_AnomalyFailsCompile ==
    (Compiled /\ ScannedAnomaly) => (~compiler.ok /\ ParseFailed)

\* a token that is not whitespace is written after the closing brace of the
\* message
WritesAfterMessage == doc.tail \notin { Empty, << " " >> }

\* C20: a source with any token, valid or Error, after the closing brace of
\* the message does not compile successfully.
C20_NothingAfterMessage ==
    (Compiled /\ WritesAfterMessage) => ~compiler.ok

(***************************************************************************)
(* Properties of the accessors (checked under SpecCompiler)                *)
(***************************************************************************)

\* C18: after a successful compile get_ir returns the IR exactly as
\* lowering produced it, the children in source order at every depth.
C18_GetIrIsTheLoweredIr ==
    (Compiled /\ compiler.ok) => compiler.ir = build(compiler.ast)

(***************************************************************************)
(* Properties of the scanner (checked under SpecLexerFair)                 *)
(***************************************************************************)

\* the texts of the scanner's tokens, concatenated in order
RECURSIVE TextOf(_)
TextOf(tokens) ==
    IF tokens = Empty THEN Empty ELSE Head(tokens).value \o TextOf(Tail(tokens))

\* C28: scanning is lossless: the texts of the tokens scanned so far,
\* whitespace and Error tokens included, concatenate to the source up to
\* the scanner's position, and the texts of the list tokenize returns to
\* the whole source, also when a version marker is malformed.
C28_ScanIsLossless ==
    /\ tokenize_pc # "idle" =>
           TextOf(lexer.tokens) = SubSeq(lexer.source, 1, lexer.position)
    /\ tokenize_pc = "returned" =>
           /\ TextOf(lexer.tokens) = lexer.source
           /\ lexer.tokens[Len(lexer.tokens)].value = Empty

\* the scan of a source that starts with a version marker cut before its
\* dot and holds a space has returned: an Error token for the @, a
\* whitespace token, and the texts give the source back
C28_Witness ==
    /\ tokenize_pc = "returned"
    /\ Len(lexer.source) > 3
    /\ SubSeq(lexer.source, 1, 3) = << "@", "v", "1" >>
    /\ lexer.tokens[1].type = "ERROR" /\ lexer.tokens[1].value = << "@" >>
    /\ \E i \in DOMAIN lexer.tokens : lexer.tokens[i].type = "WHITESPACE"
    /\ TextOf(lexer.tokens) = lexer.source

\* the positions of the Eof tokens in the scanner's token list
EofPositions == { i \in DOMAIN lexer.tokens : lexer.tokens[i].type = "EOF" }

\* tokenize has returned a list whose last token, and no other, is Eof; it
\* is the list the whole call computes for the source
ReturnedWellFormed ==
    tokenize_pc = "returned" =>
        /\ lexer.tokens # Empty
        /\ EofPositions = { Len(lexer.tokens) }
        /\ lexer.position = Len(lexer.source)
        /\ lexer.tokens = tokenize(NewLexer(lexer.source)).tokens

\* every loop iteration moves the position forward
PositionIncreases == TokenizeLoop => lexer'.position > lexer.position

\* C17: for every source, tokenize on a fresh Lexer terminates: the position
\* strictly increases on every loop iteration, the call returns, and the
\* list returned has Eof as its last token and nowhere else.
C17_ScannerIsTotal ==
    /\ [][PositionIncreases]_vars
    /\ []ReturnedWellFormed
    /\ (tokenize_pc = "loop") ~> (tokenize_pc = "returned")

\* the scan of a source that starts with a cut version marker and ends with
\* a dot has returned, with Error tokens in the list
C17_Witness ==
    /\ tokenize_pc = "returned"
    /\ Len(lexer.source) = 3 + MaxSourceLen
    /\ SubSeq(lexer.source, 1, 3) = << "@", "v", "1" >>
    /\ lexer.source[Len(lexer.source)] = "."
    /\ Cardinality({ i \in DOMAIN lexer.tokens : lexer.tokens[i].type = "ERROR" }) >= 2
    /\ lexer.tokens[Len(lexer.tokens)].type = "EOF"

(***************************************************************************)
(* Properties of the registry under two threads (checked under             *)
(* SpecRegistryThreads)                                                    *)
(***************************************************************************)

\* both calls have returned
BothReturned == \A t \in Threads : threads[t].pc = "returned"

\* one call computed its id after the other had computed its own and before
\* the other had stored its concept
Raced == \E t \in Threads : threads[t].raced

\* the ids the two calls returned
ReturnedIds == { threads[t].new_id : t \in Threads }

\* the labels of the concepts the registry holds beyond the default ones
AddedLabels == { concepts[id].label : id \in DOMAIN concepts \ DOMAIN DefaultConcepts }

\* C19: when two add_concept calls on the default registry interleave so
\* that the second computes its id before the first has stored its concept,
\* both return the same id, c8702, and the registry holds one of the two
\* concepts only; when they do not, the ids are c8702 and c8703 and the
\* registry holds both concepts.
C19_UnserializedCallsCollide ==
    BothReturned =>
        /\ Raced =>
               /\ ReturnedIds = { << "c", "8", "7", "0", "2" >> }
               /\ DOMAIN concepts \ DOMAIN DefaultConcepts = ReturnedIds
               /\ Cardinality(AddedLabels) = 1 /\ AddedLabels \subseteq Threads
        /\ ~Raced =>
               /\ ReturnedIds = { << "c", "8", "7", "0", "2" >>, << "c", "8", "7", "0", "3" >> }
               /\ DOMAIN concepts \ DOMAIN DefaultConcepts = ReturnedIds
               /\ \A t \in Threads : concepts[threads[t].new_id].label = t

\* both calls computed c8702 before either stored; t1 stored first, t2
\* stored over it, and both returned: the concept of t1 is gone
C19_Witness ==
    /\ BothReturned /\ Raced
    /\ threads["t2"].raced
    /\ threads["t1"].new_id = threads["t2"].new_id
    /\ AddedLabels = { "t2" }

\* the two calls ran one after the other and returned different ids
C19_WitnessSerialized ==
    /\ BothReturned /\ ~Raced
    /\ Cardinality(ReturnedIds) = 2
    /\ AddedLabels = Threads

(***************************************************************************)
(* Properties of the semantic check (checked under SpecCompiler)           *)
(***************************************************************************)

\* every tag written in a forest, at any depth
RECURSIVE TagsOf(_)
TagsOf(items) ==
    UNION { { items[i].tag } \cup TagsOf(items[i].children) : i \in DOMAIN items }

\* a concept tag that is the sigil, c and digits only, with no qualifier
IsBareNumericId(tag) ==
    /\ Len(tag) >= 3 /\ tag[1] = "#" /\ tag[2] = "c"
    /\ \A i \in 3..Len(tag) : tag[i] \in DigitChars

\* the ids the checker warned about as unknown
WarnedUnknown ==
    { compiler.warnings[i].detail :
          i \in { j \in DOMAIN compiler.warnings :
                      compiler.warnings[j].message = "Unknown concept ID: " } }

\* the ids of the written concepts the claim says are warned about
WrittenUnknown ==
    IF compiler.concept_space = {} THEN {}
    ELSE { Tail(tag) : tag \in { t \in TagsOf(doc.content) :
                                     IsBareNumericId(t) /\ Tail(t) \notin compiler.concept_space } }

\* C21: the checker warns about an unknown concept exactly for the concepts
\* written as the sigil, c and digits, without qualifier, whose id is not in
\* the non-empty registry; #cat is never warned about; a concept never
\* produces an error.
C21_UnknownConceptWarning ==
    (Compiled /\ ~ParseFailed) =>
        /\ WarnedUnknown = WrittenUnknown
        /\ (\A t \in TagsOf(doc.content) : TagKind(t) # "reference") => compiler.errors = Empty

\* every tag written in a forest, in the order written (a tag before the
\* tags in its body)
RECURSIVE FlatTags(_)
FlatTags(items) ==
    IF items = Empty THEN Empty
    ELSE << items[1].tag >> \o FlatTags(items[1].children) \o FlatTags(Tail(items))

\* the first dot-separated segment of a written reference, after the sigil
RECURSIVE UpToDot(_)
UpToDot(s) == IF s = Empty \/ s[1] = "." THEN Empty ELSE << s[1] >> \o UpToDot(Tail(s))

FirstSegment(tag) == UpToDot(Tail(tag))

PrevWord == << "p", "r", "e", "v" >>

IsPrevSegment(seg) == Len(seg) >= 4 /\ SubSeq(seg, 1, 4) = PrevWord

\* a written reference the claim says is an error: prev followed by
\* something that is not all digits, the bare prev included
WritesBadPrev(tag) ==
    /\ TagKind(tag) = "reference"
    /\ IsPrevSegment(FirstSegment(tag))
    /\ LET rest == SubSeq(FirstSegment(tag), 5, Len(FirstSegment(tag)))
       IN  rest = Empty \/ \E i \in DOMAIN rest : rest[i] \notin DigitChars

\* a written reference the claim says is warned about
WritesUnusualScope(tag) ==
    /\ TagKind(tag) = "reference"
    /\ FirstSegment(tag) \notin { << "s", "e", "l", "f" >>, << "s", "h", "a", "r", "e", "d" >> }
    /\ ~IsPrevSegment(FirstSegment(tag))

\* the diagnostics with the text message, one for the first segment of each
\* written tag that satisfies Test, in the order written
ExpectedFor(tags, message, Test(_)) ==
    LET found == SelectSeq(tags, Test)
    IN  [i \in DOMAIN found |-> Diagnostic(message, FirstSegment(found[i]))]

\* C22: for the references of a message that parses, the checker reports an
\* error exactly for each whose first segment starts with prev and goes on
\* with something that is not all digits (the bare prev included), and one
\* warning and no error for each whose first segment is neither self, shared
\* nor prev-prefixed (the empty segment included).
C22_ReferenceDiagnostics ==
    (Compiled /\ ~ParseFailed) =>
        /\ compiler.errors
               = ExpectedFor(FlatTags(doc.content), "Invalid prev index: ", WritesBadPrev)
        /\ SelectSeq(compiler.warnings, LAMBDA w : w.message = "Unusual reference type: ")
               = ExpectedFor(FlatTags(doc.content), "Unusual reference type: ", WritesUnusualScope)

\* @v1.0{^prev ^.x} was compiled: the bare prev is an error, the empty first
\* segment a warning
C22_Witness ==
    /\ Compiled /\ ~ParseFailed
    /\ FlatTags(doc.content) = << << "^", "p", "r", "e", "v" >>, << "^", ".", "x" >> >>
    /\ compiler.errors = << Diagnostic("Invalid prev index: ", PrevWord) >>
    /\ compiler.warnings = << Diagnostic("Unusual reference type: ", Empty) >>

(***************************************************************************)
(* Properties of the lowering (checked under SpecCompiler)                 *)
(***************************************************************************)

\* the text of a concept tag between the sigil and the first qualifier
\* separator, and the text after that separator
RECURSIVE UpToTilde(_)
UpToTilde(s) == IF s = Empty \/ s[1] = "~" THEN Empty ELSE << s[1] >> \o UpToTilde(Tail(s))

WrittenId(tag) == UpToTilde(Tail(tag))

WrittenQualifier(tag) == SubSeq(tag, Len(WrittenId(tag)) + 3, Len(tag))

\* C23: for every concept token #X~Y, where Y may itself hold ~, the lowered
\* concept has id = X and qualifier = Y, the whole remainder, and printing
\* it gives the token text back.
C23_QualifierIsTheRemainder ==
    (Compiled /\ compiler.ok) =>
        \A i \in DOMAIN doc.content :
            LET tag == doc.content[i].tag
            IN  (TagKind(tag) = "concept" /\ "~" \in Range(tag) /\ doc.content[i].children = Empty)
                    => /\ compiler.ir.content[i].id = WrittenId(tag)
                       /\ compiler.ir.content[i].qualifier = WrittenQualifier(tag)
                       /\ _generate_concept(compiler.ir.content[i], 0) = tag

(***************************************************************************)
(* Properties of the canonicalizer (checked under SpecCompiler)            *)
(***************************************************************************)

\* the children of an IR node, none when it has no children key
ChildrenOf(n) == IF Has(n, "children") THEN n.children ELSE Empty

\* the types of a list of IR nodes, in order
TypesOf(nodes) == [i \in DOMAIN nodes |-> nodes[i].type]

\* the IR nodes of a list with their children removed at every depth below:
\* what a node is apart from the order of what it holds
Shallow(nodes) == [i \in DOMAIN nodes |-> [k \in DOMAIN nodes[i] \ {"children"} |-> nodes[i][k]]]

\* the children of a concept as the claim orders them: the concepts, then
\* the relations, then the others, each band in its input order
Banded(children) ==
    LET band(types) == SelectSeq(children, LAMBDA n : n.type \in types)
    IN  band({"Concept"}) \o band({"Relation"})
        \o band({ children[i].type : i \in DOMAIN children } \ {"Concept", "Relation"})

\* node o is the canonical form of the lowered node n as the claim gives
\* it: the children of a concept banded, the children of any other node in
\* their input order, and each child the canonical form of the child it
\* came from
RECURSIVE IsCanonicalOf(_, _)
IsCanonicalOf(o, n) ==
    LET from == IF n.type = "Concept" THEN Banded(ChildrenOf(n)) ELSE ChildrenOf(n)
        to   == ChildrenOf(o)
    IN  /\ Shallow(<< o >>) = Shallow(<< n >>)
        /\ Has(o, "children") = Has(n, "children")
        /\ Len(to) = Len(from)
        /\ \A i \in DOMAIN to : IsCanonicalOf(to[i], from[i])

\* the IR as lowering produced it
Lowered == build(compiler.ast)

\* C24: canonicalizing a concept lists its concept children, then its
\* relation children, then the others, each band in its original order and
\* nothing added, dropped or duplicated; the children of a relation keep
\* their order.
C24_StablePartition ==
    (Compiled /\ compiler.ok /\ Has(Lowered, "content")) =>
        /\ Len(compiler.optimized_ir.content) = Len(Lowered.content)
        /\ \A i \in DOMAIN Lowered.content :
               \E j \in DOMAIN compiler.optimized_ir.content :
                   IsCanonicalOf(compiler.optimized_ir.content[j], Lowered.content[i])

\* @v1.0{#b{$q ~r}} was compiled: the relation moved before the quantifier
C24_Witness ==
    /\ Compiled /\ compiler.ok
    /\ Len(doc.content) = 1 /\ Len(doc.content[1].children) = 2
    /\ TypesOf(ChildrenOf(Lowered.content[1])) = << "Quantifier", "Relation" >>
    /\ TypesOf(ChildrenOf(compiler.optimized_ir.content[1])) = << "Relation", "Quantifier" >>

\* @v1.0{~r{~r #b}} was compiled: the children of the relation stayed
C24_WitnessRelation ==
    /\ Compiled /\ compiler.ok
    /\ Len(doc.content) = 1
    /\ TypesOf(Lowered.content) = << "Relation" >>
    /\ TypesOf(ChildrenOf(Lowered.content[1])) = << "Relation", "Concept" >>
    /\ TypesOf(ChildrenOf(compiler.optimized_ir.content[1])) = << "Relation", "Concept" >>

(***************************************************************************)
(* Properties of the scopes and of path walking (checked under             *)
(* SpecResolver)                                                           *)
(***************************************************************************)

\* the segments of a path written after a scope: ".a.b" gives a, b
PathSegments(p) == Tail(Split(p, "."))

\* C25: in every state of the context buffer and for every path p,
\* resolving "^self" + p gives what resolving "^prev1" + p gives: the walk
\* of p in the most recent entry, and not-found when the buffer is empty.
\* resolve_reference leaves the buffer as it is, so the buffers up to the
\* first call are all the buffers.
C25_SelfIsPrev1 ==
    resolution.calls <= 1 =>
    \A p \in Paths :
        LET self == resolve_reference(context_buffer, SelfToken \o p)
            prev == resolve_reference(context_buffer, PrevToken(1) \o p)
        IN  /\ self = prev
            /\ context_buffer = Empty => self = NoneValue
            /\ context_buffer # Empty =>
                   self = _resolve_path(context_buffer[Len(context_buffer)], PathSegments(p))

\* ^self.#f was resolved on a buffer of two messages with different focus
\* tags and gave the tag of the newer one
C25_Witness ==
    /\ resolution.calls > 0
    /\ resolution.token = SelfToken \o << ".", "#", "f" >>
    /\ Len(resolution.buffer) >= 2
    /\ resolution.result = StrValue(<< "b" >>)
    /\ resolve_reference(resolution.buffer, PrevToken(2) \o << ".", "#", "f" >>) = StrValue(<< "a" >>)

\* the keys of a map, in insertion order
KeysOf(map) == [i \in DOMAIN map.items |-> map.items[i][1]]

\* the first position of a sequence whose element passes the test, 0 if none
FirstWhere(seq, Test(_)) ==
    LET hits == { i \in DOMAIN seq : Test(seq[i]) }
    IN  IF hits = {} THEN 0 ELSE CHOOSE i \in hits : \A j \in hits : i <= j

IsTagSegment(segment) == StartsWith(segment, << "#" >>)

\* whether an element of a sequence is a map with a key the tag is a prefix of
HoldsTag(item, segment) ==
    item.kind = "dict" /\ FirstWhere(KeysOf(item), LAMBDA k : StartsWith(k, segment)) # 0

\* one segment as the walk is described: where it leads from the value
\* reached so far, or that it cannot be resolved
Step(current, segment) ==
    LET at(seq, i) == IF i = 0 THEN [found |-> FALSE] ELSE [found |-> TRUE, value |-> seq[i]]
    IN  CASE current.kind = "dict" /\ IsTagSegment(segment) ->
                 at([i \in DOMAIN current.items |-> current.items[i][2]],
                    FirstWhere(KeysOf(current), LAMBDA k : StartsWith(k, segment)))
          [] current.kind = "dict" /\ ~IsTagSegment(segment) ->
                 at([i \in DOMAIN current.items |-> current.items[i][2]],
                    FirstWhere(KeysOf(current), LAMBDA k : k = segment))
          [] current.kind = "list" /\ ParseInt(segment).ok ->
                 IF ParseInt(segment).value \in 0..(Len(current.items) - 1)
                 THEN at(current.items, ParseInt(segment).value + 1)
                 ELSE [found |-> FALSE]
          [] current.kind = "list" /\ ~ParseInt(segment).ok /\ IsTagSegment(segment) ->
                 at(current.items, FirstWhere(current.items, LAMBDA item : HoldsTag(item, segment)))
          [] OTHER -> [found |-> FALSE]

\* the walk of a path as it is described: the value after the last segment,
\* not found from the first segment that cannot be resolved
RECURSIVE Walk(_, _)
Walk(obj, path) ==
    IF path = Empty THEN [found |-> TRUE, value |-> obj]
    ELSE LET step == Step(obj, path[1])
         IN  IF step.found THEN Walk(step.value, Tail(path)) ELSE step

\* the paths walked: one per way a segment resolves or fails
WalkPaths ==
    { PathSegments(p) : p \in Paths }
    \cup { << << "#", "z" >> >>,
           << << "l", "i", "s", "t" >>, << "0" >> >>,
           << << "l", "i", "s", "t" >>, << "2" >> >>,
           << << "l", "i", "s", "t" >>, << "-", "1" >> >>,
           << << "l", "i", "s", "t" >>, << "#", "i" >> >>,
           << << "l", "i", "s", "t" >>, << "#", "z" >> >>,
           << << "l", "i", "s", "t" >>, << "x" >> >>,
           << << "#", "f" >>, << "x" >> >>,
           << << "#", "f", "x" >> >>,
           << << "l", "i", "s", "t" >>, << "1" >>, << "#", "i", "1" >>, << "0" >> >>,
           << << "n", "o" >>, << "#", "f" >> >> }

\* C26: _resolve_path returns not-found exactly when, walking the segments
\* in order, some segment cannot be resolved against the value reached so
\* far; otherwise it returns the value reached after the last segment, a
\* tag segment on a map selecting the value of the first key it is a
\* prefix of.  Walked in every message of every buffer; the buffers up to
\* the first resolve_reference call are all the buffers.
C26_WalkFailsAtFirstUnresolved ==
    resolution.calls <= 1 =>
    \A i \in DOMAIN context_buffer : \A path \in WalkPaths :
        LET returned == _resolve_path(context_buffer[i], path)
            walked   == Walk(context_buffer[i], path)
        IN  /\ (returned = NoneValue) <=> ~walked.found
            /\ walked.found => returned = walked.value

\* ^self.list.1.#i was resolved on the message that holds the list: three
\* segments resolved in turn, the last by prefix; and on the same message
\* the tag #f has two keys to choose from and .no none
C26_Witness ==
    /\ resolution.calls > 0
    /\ resolution.token = SelfToken \o << ".", "l", "i", "s", "t", ".", "1", ".", "#", "i" >>
    /\ resolution.result = StrValue(<< "y" >>)
    /\ LET message == resolution.buffer[Len(resolution.buffer)]
       IN  /\ Cardinality({ k \in DOMAIN message.items :
                              StartsWith(message.items[k][1], << "#", "f" >>) }) = 2
           /\ _resolve_path(message, << << "#", "f" >> >>) = StrValue(<< "b" >>)
           /\ _resolve_path(message, << << "n", "o" >> >>) = NoneValue

(***************************************************************************)
(* Properties of the parser (checked under SpecParserFair)                 *)
(***************************************************************************)

\* the index of the Eof token: the last token of the list
EofIndex == Len(parser.tokens)

\* parse has returned a Message tree with no error, or the degenerate node
\* with the error text
ReturnedTreeOrDegenerate ==
    /\ parser.pc = "returned"
    /\ \/ /\ parser.errors = Empty
          /\ parser.ast.type = "MESSAGE" /\ parser.ast.value = None
          /\ parser.ast.children # Empty /\ parser.ast.children[1].type = "VERSION"
       \/ /\ parser.errors # Empty
          /\ parser.ast.type = "MESSAGE" /\ parser.ast.value = << "E", "r", "r", "o", "r" >>
          /\ parser.ast.children = Empty

\* an iteration of a body loop consumes at least one token or aborts the parse
IterationProgresses ==
    [][ParseIteration =>
           \/ parser'.current >= parser.current + 1
           \/ parser'.pc = "returned" /\ parser'.errors # Empty]_vars

\* the token read next is never past the Eof token, and the Eof token is
\* never consumed
WithinTokens ==
    /\ parser.current + 1 <= EofIndex
    /\ parser.tokens[EofIndex].type = "EOF"
    /\ \A i \in 1..parser.current : parser.tokens[i].type # "EOF"

\* the stepwise parse returns what Parser.parse returns
ReturnsWhatParseReturns ==
    parser.pc = "returned" =>
        /\ parser.ast = parse(parser.tokens).ast
        /\ parser.errors = parse(parser.tokens).errors

\* C27: the parser always terminates: every iteration of a body loop
\* consumes at least one token or aborts the parse, parse eventually
\* returns a Message tree or the degenerate error node, and no token past
\* Eof is read.
C27_ParserTerminates ==
    /\ <>(ReturnedTreeOrDegenerate)
    /\ IterationProgresses
    /\ [](WithinTokens /\ ReturnsWhatParseReturns)

\* @v1.0 { #b { $q } was parsed: two loops were entered, the inner one
\* added a quantifier, and parse aborted at Eof with the concept unclosed
C27_Witness ==
    /\ parser.pc = "returned" /\ parser.errors # Empty
    /\ parser.current = EofIndex - 1
    /\ [i \in DOMAIN parser.tokens |-> parser.tokens[i].type]
           = << "VERSION", "OPEN_BRACE", "CONCEPT", "OPEN_BRACE", "QUANTIFIER",
                "CLOSE_BRACE", "EOF" >>

\* @v1.0 { #b { } } was parsed to a Message tree
C27_WitnessTree ==
    /\ parser.pc = "returned" /\ parser.errors = Empty
    /\ parser.current = EofIndex - 1
    /\ Len(parser.ast.children) = 2 /\ parser.ast.children[2].type = "CONCEPT"
    /\ Len(parser.tokens) = 7

(***************************************************************************)
(* Frame of add_concept (checked under SpecRegistry)                       *)
(***************************************************************************)

\* the ids named in the arguments of the last add_concept call
NamedInCall ==
    Range(last_add.related) \cup Range(last_add.hyponyms) \cup Range(last_add.hypernyms)

\* C29: add_concept never overwrites or deletes: the id a call returns was
\* no key before the call and is numerically greater than every numeric id
\* there was, the registry has exactly one more entry, and every concept
\* there was that the call's related, hyponyms and hypernyms do not name
\* is as it was.
C29_AddOnlyAddsAndPatchesNamed ==
    last_add.calls > 0 =>
        /\ last_add.new_id \notin DOMAIN last_add.before
        /\ \A n \in NumericIds(last_add.before) : DigitsToInt(Tail(last_add.new_id)) > n
        /\ DOMAIN concepts = DOMAIN last_add.before \cup { last_add.new_id }
        /\ Cardinality(DOMAIN concepts) = Cardinality(DOMAIN last_add.before) + 1
        /\ \A id \in DOMAIN last_add.before :
               id \notin NamedInCall => concepts[id] = last_add.before[id]
(***************************************************************************)
(* Repeating compile on one instance (checked under SpecCompiler)          *)
(***************************************************************************)

\* C30: a second compile call on the same LLMCLCompiler returns the (ok,
\* output) pair the first call returned and leaves the warning list with
\* the contents it had after the first call, for sources that succeed and
\* for sources that fail.
C30_CompileIsRepeatable ==
    other.relation = "again" =>
        /\ other.compiler.ok = compiler.ok
        /\ other.compiler.output = compiler.output
        /\ other.compiler.warnings = compiler.warnings

====
